---- MODULE Spec2Model ----
(***************************************************************************)
(* LeseAssistent (src/app.py): the in-memory session registry, the two     *)
(* LRU result caches and the socket handlers layered on them, as a state   *)
(* machine.  Each action is one lock-held block of a handler (or the       *)
(* unlocked code between two of them); worker threads interleave at these  *)
(* boundaries.                                                             *)
(***************************************************************************)
EXTENDS Integers, Sequences, FiniteSets, TLC

(***************************************************************************)
(* Bounds of the model.                                                    *)
(***************************************************************************)
\* The clock (datetime.now(), in hours) runs over 0..MaxTime.
MaxTime == 3
\* The classroom requests (set-text, settings, tasks, simplification,
\* translation, join, disconnect) a behaviour accepts at most.
MaxOps == 4
\* The /api/tts and /api/translate requests a behaviour accepts at most.
MaxRequests == 5
\* The capacities of the two caches.  The source sets 500 and 1000; the model
\* scales them down, the code only ever compares them with len().
MAX_CACHE_SIZE == 2
MAX_TRANSLATION_CACHE_SIZE == 3
\* Hours a session lives.  The source sets 3; the model scales it down, no
\* handler reads the value except to add it to the creation time.
SESSION_TIMEOUT_HOURS == 2

\* Session codes random.choices can draw (two of the 32^6).
Codes == {"AAAAAA", "BBBBBB"}
\* Socket connection ids (request.sid).
Sids == {"c1", "c2"}
\* Worker threads serving requests.
Threads == {"w1", "w2"}

\* Python's None where a connection id is expected.
None == "None"
\* A dictionary key that was never set (session.get(key, default)).
Absent == "absent"

VARIABLES
    sessions,           \* sessions: code -> session record (the registry)
    rooms,              \* socket.io rooms: room name -> set of connection ids
    now,                \* datetime.now()
    th,                 \* th[t]: the handler a worker runs and its locals
    last,               \* history: the step taken last (its call, inputs,
                        \* result and emissions)
    ops,                \* the number of requests counted against MaxOps or
                        \* MaxRequests accepted so far
    tts_cache,          \* tts_cache: the OrderedDict as the sequence of its
                        \* <<key, value>> items, oldest first
    translation_cache,  \* translation_cache, likewise
    acc                 \* history: <<cache, key>> of every successful get and
                        \* every add, in the order they happened

vars == <<sessions, rooms, now, th, last, ops, tts_cache, translation_cache, acc>>

(***************************************************************************)
(* Helpers on dictionaries.                                                *)
(***************************************************************************)
EmptyDict == [k \in {} |-> k]

DictDel(d, k) == [x \in (DOMAIN d) \ {k} |-> d[x]]

\* d.setdefault(k, v): a key already in d keeps its value.
DictSetDefault(d, k, v) == [x \in (DOMAIN d) \cup {k} |-> IF x \in DOMAIN d THEN d[x] ELSE v]

\* d[k] = v
DictSet(d, k, v) == [x \in (DOMAIN d) \cup {k} |-> IF x = k THEN v ELSE d[x]]

(***************************************************************************)
(* Session registry: pure functions of the registry S and the clock t.     *)
(***************************************************************************)
\* The record create_session stores.
NewSession(teacher_sid, keys, pin, t) ==
    [ keys                   |-> keys,
      teacher_sid            |-> teacher_sid,
      created                |-> t,
      expires                |-> t + SESSION_TIMEOUT_HOURS,
      students               |-> EmptyDict,
      text                   |-> "",
      pin                    |-> pin,
      tasks                  |-> <<>>,
      tasks_available        |-> FALSE,
      translation_requests   |-> EmptyDict,
      simplification_enabled |-> FALSE,
      student_levels         |-> EmptyDict,
      settings               |-> Absent ]

\* One iteration of generate_session_code's loop: is the drawn code free?
CodeIsFree(S, code) == code \notin DOMAIN S

\* create_session's locked block: sessions[code] = {...}
InsertSession(S, code, rec) == DictSet(S, code, rec)

\* get_session with the expiry comparison off by one (<= for <).
get_session_inclusive(S, t, code) ==
    IF code \in DOMAIN S
    THEN IF t <= S[code].expires
         THEN [ret |-> {S[code]}, S |-> S]
         ELSE [ret |-> {}, S |-> DictDel(S, code)]
    ELSE [ret |-> {}, S |-> S]

\* get_session with a sliding expiry: a hit starts the lifetime anew.
get_session_sliding(S, t, code) ==
    IF code \in DOMAIN S
    THEN IF t < S[code].expires
         THEN [ret |-> {S[code]},
               S |-> [S EXCEPT ![code].expires = t + SESSION_TIMEOUT_HOURS]]
         ELSE [ret |-> {}, S |-> DictDel(S, code)]
    ELSE [ret |-> {}, S |-> S]

\* get_session: ret is {} for None, {session} otherwise; S the registry after.
get_session(S, t, code) ==
    IF code \in DOMAIN S
    THEN IF t < S[code].expires
         THEN [ret |-> {S[code]}, S |-> S]
         ELSE [ret |-> {}, S |-> DictDel(S, code)]
    ELSE [ret |-> {}, S |-> S]

\* end_session reporting True without deleting the record.
end_session_keeps(S, code) ==
    IF code \in DOMAIN S
    THEN [ret |-> TRUE, S |-> S]
    ELSE [ret |-> FALSE, S |-> S]

\* end_session
end_session(S, code) ==
    IF code \in DOMAIN S
    THEN [ret |-> TRUE, S |-> DictDel(S, code)]
    ELSE [ret |-> FALSE, S |-> S]

\* cleanup_expired_sessions with a strict comparison (> for >=).
cleanup_expired_sessions_strict(S, t) ==
    LET expired == {c \in DOMAIN S : t > S[c].expires}
    IN  [c \in (DOMAIN S) \ expired |-> S[c]]

\* cleanup_expired_sessions that finds nothing expired.
cleanup_expired_sessions_idle(S, t) == S

\* cleanup_expired_sessions
cleanup_expired_sessions(S, t) ==
    LET expired == {c \in DOMAIN S : t >= S[c].expires}
    IN  [c \in (DOMAIN S) \ expired |-> S[c]]

(***************************************************************************)
(* Worker threads, emissions and the history variable.                     *)
(***************************************************************************)
\* cleanup_thread, the thread that runs session_cleanup_thread.
SweepThread == "sweep"

Idle == [pc |-> "idle", h |-> "none", sid |-> None, code |-> "", x |-> <<>>]

\* socketio.emit(ev, data, room=to); emit(ev, data) goes to the caller's sid.
Emit(ev, to, data) == [ev |-> ev, to |-> to, data |-> data]

\* jsonify(body), status
Http(status, body) == <<[status |-> status, body |-> body]>>

NoPrev == [call |-> "none", code |-> "", ok |-> FALSE]

\* The end_session call, if any, that was the registry call before this one.
PrevOf(l) ==
    IF l.call = "none" THEN l.prev
    ELSE IF l.call = "end_session"
         THEN [call |-> l.call, code |-> l.code, ok |-> l.ok]
         ELSE NoPrev

\* What the registry S held under `code` at clock t: "missing", "live" or "expired".
Was(S, t, code) ==
    IF code \notin DOMAIN S THEN "missing"
    ELSE IF t < S[code].expires THEN "live" ELSE "expired"

NoStep ==
    [ h |-> "none", call |-> "none", sid |-> None, code |-> "", was |-> "missing",
      ret |-> {}, ok |-> FALSE, emits |-> <<>>, resp |-> <<>>, done |-> TRUE,
      prev |-> NoPrev ]

\* The step now being taken: handler h, for connection sid, ran registry call
\* `call` on `code`; ret/ok are its result, emits and resp what the step sent,
\* done whether the handler returned with this step.
Log(h, call, sid, code, ret, ok, emits, resp, done) ==
    [ h |-> h, call |-> call, sid |-> sid, code |-> code,
      was |-> Was(sessions, now, code), ret |-> ret, ok |-> ok,
      emits |-> emits, resp |-> resp, done |-> done, prev |-> PrevOf(last) ]

\* join_room(room) for connection sid
JoinRoom(R, room, sid) == [R EXCEPT ![room] = @ \cup {sid}]

Init ==
    /\ sessions = EmptyDict
    /\ rooms = [c \in Codes |-> {}]
    /\ now = 0
    /\ th = [t \in Threads \cup {SweepThread} |-> Idle]
    /\ last = NoStep
    /\ ops = 0
    /\ tts_cache = <<>>
    /\ translation_cache = <<>>
    /\ acc = <<>>

(***************************************************************************)
(* The clock.                                                              *)
(***************************************************************************)
Tick ==
    /\ now < MaxTime
    /\ now' = now + 1
    /\ last' = [NoStep EXCEPT !.prev = PrevOf(last)]
    /\ UNCHANGED <<sessions, rooms, th, ops, tts_cache, translation_cache, acc>>

(***************************************************************************)
(* Session creation: /api/session/create and teacher_create_session.       *)
(***************************************************************************)
\* api_create_session up to the call of create_session(None, keys)
ApiCreateSession(t, keys) ==
    /\ th[t].pc = "idle"
    /\ IF keys.elevenlabs = ""
       THEN /\ last' = Log("api_create_session", "none", None, "", {}, FALSE, <<>>,
                           Http(400, [error |-> <<"ElevenLabs API Key erforderlich">>]), TRUE)
            /\ UNCHANGED th
       ELSE /\ th' = [th EXCEPT ![t] = [pc |-> "generate_session_code",
                         h |-> "api_create_session", sid |-> None, code |-> "",
                         x |-> [keys |-> keys, pin |-> ""]]]
            /\ last' = Log("api_create_session", "none", None, "", {}, FALSE, <<>>, <<>>, FALSE)
    /\ UNCHANGED <<sessions, rooms, now, ops, tts_cache, translation_cache, acc>>

\* handle_teacher_create_session up to the call of create_session(request.sid, keys, pin)
TeacherCreateSession(t, sid, keys, pin) ==
    /\ th[t].pc = "idle"
    /\ IF keys.elevenlabs = ""
       THEN /\ last' = Log("teacher_create_session", "none", sid, "", {}, FALSE,
                           <<Emit("session_error", sid, [error |-> <<"ElevenLabs API Key erforderlich">>])>>,
                           <<>>, TRUE)
            /\ UNCHANGED th
       ELSE /\ th' = [th EXCEPT ![t] = [pc |-> "generate_session_code",
                         h |-> "teacher_create_session", sid |-> sid, code |-> "",
                         x |-> [keys |-> keys, pin |-> pin]]]
            /\ last' = Log("teacher_create_session", "none", sid, "", {}, FALSE, <<>>, <<>>, FALSE)
    /\ UNCHANGED <<sessions, rooms, now, ops, tts_cache, translation_cache, acc>>

\* generate_session_code: the loop iteration that draws a free code and returns
\* it (an iteration that draws a taken code changes nothing and is not a step).
GenerateSessionCode(t, code) ==
    /\ th[t].pc = "generate_session_code"
    /\ CodeIsFree(sessions, code)
    /\ th' = [th EXCEPT ![t].pc = "create_session", ![t].code = code]
    /\ last' = Log(th[t].h, "generate_session_code", th[t].sid, code, {}, TRUE, <<>>, <<>>, FALSE)
    /\ UNCHANGED <<sessions, rooms, now, ops, tts_cache, translation_cache, acc>>

\* create_session: the locked insertion, a second acquisition of sessions_lock
CreateSession(t) ==
    /\ th[t].pc = "create_session"
    /\ sessions' = InsertSession(sessions, th[t].code,
                       NewSession(th[t].sid, th[t].x.keys, th[t].x.pin, now))
    /\ th' = [th EXCEPT ![t].pc = "create_reply"]
    /\ last' = Log(th[t].h, "create_session", th[t].sid, th[t].code, {}, TRUE, <<>>, <<>>, FALSE)
    /\ UNCHANGED <<rooms, now, ops, tts_cache, translation_cache, acc>>

\* After create_session returned: the reply reads sessions[code]['expires']
\* without the lock (a KeyError if the record is gone by then).
CreateReply(t) ==
    LET code == th[t].code
        sid  == th[t].sid
        here == code \in DOMAIN sessions
    IN
    /\ th[t].pc = "create_reply"
    /\ IF th[t].h = "api_create_session"
       THEN /\ last' = Log(th[t].h, "none", sid, code, {}, here, <<>>,
                           IF here
                           THEN Http(200, [success |-> TRUE, code |-> code,
                                           expires |-> sessions[code].expires])
                           ELSE Http(500, [error |-> <<code>>]),
                           TRUE)
            /\ UNCHANGED rooms
       ELSE /\ rooms' = JoinRoom(rooms, code, sid)
            /\ last' = Log(th[t].h, "none", sid, code, {}, here,
                           IF here
                           THEN <<Emit("session_created", sid,
                                       [code |-> code, expires |-> sessions[code].expires,
                                        has_pin |-> th[t].x.pin # ""])>>
                           ELSE <<>>,
                           <<>>, TRUE)
    /\ th' = [th EXCEPT ![t] = Idle]
    /\ UNCHANGED <<sessions, now, ops, tts_cache, translation_cache, acc>>

(***************************************************************************)
(* Lookup, termination over HTTP, and the periodic sweep.                  *)
(***************************************************************************)
\* api_join_session: /api/session/join
ApiJoinSession(t, code) ==
    LET r == get_session(sessions, now, code) IN
    /\ th[t].pc = "idle"
    /\ sessions' = r.S
    /\ last' = Log("api_join_session", "get_session", None, code, r.ret, r.ret # {}, <<>>,
                   IF r.ret = {}
                   THEN Http(404, [error |-> <<"Session nicht gefunden oder abgelaufen">>])
                   ELSE Http(200, [success |-> TRUE, code |-> code,
                                   student_count |->
                                       Cardinality(DOMAIN (CHOOSE s \in r.ret : TRUE).students)]),
                   TRUE)
    /\ UNCHANGED <<rooms, now, th, ops, tts_cache, translation_cache, acc>>

\* api_end_session: end_session(code) under the lock.  `who` is the connection
\* of the client that sent the request; the request does not carry it and the
\* handler never reads it.
ApiEndSession(t, who, code) ==
    LET r == end_session(sessions, code) IN
    /\ th[t].pc = "idle"
    /\ sessions' = r.S
    /\ IF r.ret
       THEN /\ th' = [th EXCEPT ![t] = [pc |-> "api_end_emit", h |-> "api_end_session",
                                       sid |-> who, code |-> code, x |-> <<>>]]
            /\ last' = Log("api_end_session", "end_session", who, code, {}, TRUE,
                           <<>>, <<>>, FALSE)
       ELSE /\ last' = Log("api_end_session", "end_session", who, code, {}, FALSE, <<>>,
                           Http(404, [error |-> <<"Session nicht gefunden">>]), TRUE)
            /\ UNCHANGED th
    /\ UNCHANGED <<rooms, now, ops, tts_cache, translation_cache, acc>>

\* api_end_session: the broadcast after end_session returned True
ApiEndEmit(t) ==
    /\ th[t].pc = "api_end_emit"
    /\ last' = Log("api_end_session", "none", th[t].sid, th[t].code, {}, TRUE,
                   <<Emit("session_ended", th[t].code,
                          [message |-> "Die Session wurde beendet."])>>,
                   Http(200, [success |-> TRUE]), TRUE)
    /\ th' = [th EXCEPT ![t] = Idle]
    /\ UNCHANGED <<sessions, rooms, now, ops, tts_cache, translation_cache, acc>>

\* session_cleanup_thread: one run of cleanup_expired_sessions
CleanupExpiredSessions ==
    /\ th[SweepThread].pc = "idle"
    /\ sessions' = cleanup_expired_sessions(sessions, now)
    /\ last' = Log("session_cleanup_thread", "cleanup_expired_sessions", None, "", {},
                   \E c \in DOMAIN sessions : now >= sessions[c].expires,
                   <<>>, <<>>, TRUE)
    /\ UNCHANGED <<rooms, now, th, ops, tts_cache, translation_cache, acc>>

\* session_cleanup_thread: a run of cleanup_expired_sessions that raises after
\* it has deleted the codes in `deleted`.  The loop has no handler: the
\* exception ends the thread.
SweepRaises(deleted) ==
    /\ th[SweepThread].pc = "idle"
    /\ deleted \subseteq {c \in DOMAIN sessions : now >= sessions[c].expires}
    /\ sessions' = [c \in DOMAIN sessions \ deleted |-> sessions[c]]
    /\ th' = [th EXCEPT ![SweepThread].pc = "dead"]
    /\ last' = Log("session_cleanup_thread", "cleanup_expired_sessions", None, "", {},
                   FALSE, <<>>, <<>>, TRUE)
    /\ UNCHANGED <<rooms, now, ops, tts_cache, translation_cache, acc>>

(***************************************************************************)
(* The shared text: /api/session/set-text.                                 *)
(***************************************************************************)
\* api_set_session_text: the write and the broadcast, both inside the lock.
\* `who` is the connection of the client that sent the request; the request
\* does not carry it and the handler never reads it.
ApiSetSessionText(t, who, code, text) ==
    /\ th[t].pc = "idle"
    /\ ops < MaxOps
    /\ ops' = ops + 1
    /\ IF code \in DOMAIN sessions
       THEN /\ sessions' = [sessions EXCEPT ![code].text = text]
            /\ last' = Log("api_set_session_text", "none", who, code, {}, TRUE,
                           <<Emit("text_updated", code, [text |-> text])>>,
                           Http(200, [success |-> TRUE]), TRUE)
       ELSE /\ last' = Log("api_set_session_text", "none", who, code, {}, FALSE, <<>>,
                           Http(404, [error |-> <<"Session nicht gefunden">>]), TRUE)
            /\ UNCHANGED sessions
    /\ UNCHANGED <<rooms, now, th, tts_cache, translation_cache, acc>>

(***************************************************************************)
(* Owner-only socket handlers.                                             *)
(***************************************************************************)
\* The gate with the comparison of the connection left out.
OwnerCheckAnyone(S, t, code, sid) ==
    LET r == get_session(S, t, code)
    IN  [pass |-> r.ret # {}, ret |-> r.ret, S |-> r.S]

\* session = get_session(code); session and session['teacher_sid'] == request.sid
OwnerCheck(S, t, code, sid) ==
    LET r == get_session(S, t, code)
    IN  [pass |-> r.ret # {} /\ \A s \in r.ret : s.teacher_sid = sid,
         ret |-> r.ret, S |-> r.S]

\* emit('session_error', ...) to the caller
SessionError(sid, msg) == <<Emit("session_error", sid, [error |-> <<msg>>])>>

\* The first step of an owner-only handler h: the gate; on a pass the worker
\* goes on to pc `next` with locals x, otherwise the caller gets session_error.
Gate(t, h, sid, code, x, next, msg) ==
    LET g == OwnerCheck(sessions, now, code, sid) IN
    /\ th[t].pc = "idle"
    /\ ops < MaxOps
    /\ ops' = ops + 1
    /\ sessions' = g.S
    /\ IF g.pass
       THEN /\ th' = [th EXCEPT ![t] = [pc |-> next, h |-> h, sid |-> sid,
                                       code |-> code, x |-> x]]
            /\ last' = Log(h, "get_session", sid, code, g.ret, TRUE, <<>>, <<>>, FALSE)
       ELSE /\ last' = Log(h, "get_session", sid, code, g.ret, FALSE,
                           SessionError(sid, msg), <<>>, TRUE)
            /\ UNCHANGED th
    /\ UNCHANGED <<rooms, now, tts_cache, translation_cache, acc>>

\* A later locked block of handler step `pc`: with sessions_lock:
\* if code in sessions: <write>; then on to pc `next`.
Write(t, pc, S2, next) ==
    /\ th[t].pc = pc
    /\ sessions' = S2
    /\ th' = [th EXCEPT ![t].pc = next]
    /\ last' = Log(th[t].h, "none", th[t].sid, th[t].code, {}, th[t].code \in DOMAIN sessions,
                   <<>>, <<>>, FALSE)
    /\ UNCHANGED <<rooms, now, ops, tts_cache, translation_cache, acc>>

\* The handler's last step: the emissions after the lock was released.
Finish(t, pc, emits) ==
    /\ th[t].pc = pc
    /\ th' = [th EXCEPT ![t] = Idle]
    /\ last' = Log(th[t].h, "none", th[t].sid, th[t].code, {}, TRUE, emits, <<>>, TRUE)
    /\ UNCHANGED <<sessions, rooms, now, ops, tts_cache, translation_cache, acc>>

NoPermissionOrMissing == "Keine Berechtigung oder Session nicht gefunden"
NoPermission == "Keine Berechtigung"

\* handle_teacher_end_session
TeacherEndSession(t, sid, code) ==
    Gate(t, "teacher_end_session", sid, code, <<>>, "end_broadcast", NoPermissionOrMissing)

TeacherEndBroadcast(t) ==
    /\ th[t].pc = "end_broadcast"
    /\ th' = [th EXCEPT ![t].pc = "end_delete"]
    /\ last' = Log(th[t].h, "none", th[t].sid, th[t].code, {}, TRUE,
                   <<Emit("session_ended", th[t].code,
                          [message |-> "Die Session wurde vom Lehrer beendet."])>>,
                   <<>>, FALSE)
    /\ UNCHANGED <<sessions, rooms, now, ops, tts_cache, translation_cache, acc>>

TeacherEndDelete(t) ==
    LET r == end_session(sessions, th[t].code) IN
    /\ th[t].pc = "end_delete"
    /\ sessions' = r.S
    /\ th' = [th EXCEPT ![t] = Idle]
    /\ last' = Log(th[t].h, "end_session", th[t].sid, th[t].code, {}, r.ret,
                   <<Emit("session_ended_confirmed", th[t].sid, [success |-> TRUE])>>,
                   <<>>, TRUE)
    /\ UNCHANGED <<rooms, now, ops, tts_cache, translation_cache, acc>>

\* handle_teacher_update_settings
TeacherUpdateSettings(t, sid, code, settings) ==
    Gate(t, "teacher_update_settings", sid, code, settings, "settings_write",
         NoPermissionOrMissing)

UpdateSettingsWrite(t) ==
    Write(t, "settings_write",
          IF th[t].code \in DOMAIN sessions
          THEN [sessions EXCEPT ![th[t].code].settings = th[t].x]
          ELSE sessions,
          "settings_emit")

UpdateSettingsEmit(t) ==
    Finish(t, "settings_emit",
           <<Emit("settings_updated", th[t].code, [settings |-> th[t].x])>>)

\* handle_teacher_release_tasks
TeacherReleaseTasks(t, sid, code, tasks) ==
    Gate(t, "teacher_release_tasks", sid, code, tasks, "tasks_write", NoPermissionOrMissing)

ReleaseTasksWrite(t) ==
    Write(t, "tasks_write",
          IF th[t].code \in DOMAIN sessions
          THEN [sessions EXCEPT ![th[t].code].tasks = th[t].x,
                                ![th[t].code].tasks_available = TRUE]
          ELSE sessions,
          "tasks_emit")

ReleaseTasksEmit(t) ==
    Finish(t, "tasks_emit", <<Emit("tasks_released", th[t].code, [tasks |-> th[t].x])>>)

\* handle_teacher_toggle_simplification
TeacherToggleSimplification(t, sid, code, enabled) ==
    Gate(t, "teacher_toggle_simplification", sid, code, enabled, "simplification_write",
         NoPermission)

ToggleSimplificationWrite(t) ==
    Write(t, "simplification_write",
          IF th[t].code \in DOMAIN sessions
          THEN [sessions EXCEPT ![th[t].code].simplification_enabled = th[t].x]
          ELSE sessions,
          "simplification_emit")

ToggleSimplificationEmit(t) ==
    Finish(t, "simplification_emit",
           <<Emit("simplification_status_changed", th[t].code, [enabled |-> th[t].x])>>)

(***************************************************************************)
(* Translation requests.                                                   *)
(***************************************************************************)
\* LANGUAGE_NAMES.get(language, language)
LanguageName(language) ==
    CASE language = "tr" -> "Tuerkisch"
      [] language = "bg" -> "Bulgarisch"
      [] language = "de" -> "Deutsch"
      [] language = "ar" -> "Arabisch"
      [] language = "uk" -> "Ukrainisch"
      [] language = "en" -> "Englisch"
      [] OTHER -> language

\* The record handle_student_request_translation stores; it has no
\* translated_text key, which is <<>> here.
NewRequest(language, anonymous_id, t) ==
    [ language |-> language, language_name |-> LanguageName(language),
      status |-> "pending", anonymous_id |-> anonymous_id, requested_at |-> t,
      translated_text |-> <<>> ]

\* What the provider returns for `text` translated into `language`.
Translation(text, language) == <<text, language>>

\* session['students'].get(sid, {}).get('anonymous_id', 'Gast')
AnonymousIdOf(session, sid) ==
    IF sid \in DOMAIN session.students THEN session.students[sid].anonymous_id ELSE "Gast"

\* handle_student_request_translation: the lookup and the reads from the
\* session it returned
StudentRequestTranslation(t, sid, code, language) ==
    LET r == get_session(sessions, now, code) IN
    /\ th[t].pc = "idle"
    /\ ops < MaxOps
    /\ ops' = ops + 1
    /\ sessions' = r.S
    /\ IF r.ret = {}
       THEN /\ last' = Log("student_request_translation", "get_session", sid, code, {}, FALSE,
                           <<Emit("translation_error", sid, [error |-> <<"Session nicht gefunden">>])>>,
                           <<>>, TRUE)
            /\ UNCHANGED th
       ELSE LET session == CHOOSE s \in r.ret : TRUE IN
            /\ th' = [th EXCEPT ![t] = [pc |-> "request_write",
                         h |-> "student_request_translation", sid |-> sid, code |-> code,
                         x |-> [language |-> language,
                                anonymous_id |-> AnonymousIdOf(session, sid),
                                teacher_sid |-> session.teacher_sid]]]
            /\ last' = Log("student_request_translation", "get_session", sid, code, r.ret,
                           TRUE, <<>>, <<>>, FALSE)
    /\ UNCHANGED <<rooms, now, tts_cache, translation_cache, acc>>

RequestTranslationWrite(t) ==
    Write(t, "request_write",
          IF th[t].code \in DOMAIN sessions
          THEN [sessions EXCEPT ![th[t].code].translation_requests =
                    DictSet(@, th[t].sid,
                            NewRequest(th[t].x.language, th[t].x.anonymous_id, now))]
          ELSE sessions,
          "request_emit")

RequestTranslationEmit(t) ==
    Finish(t, "request_emit",
           <<Emit("translation_request_sent", th[t].sid,
                  [language |-> th[t].x.language,
                   language_name |-> LanguageName(th[t].x.language)])>>
           \o IF th[t].x.teacher_sid # None
              THEN <<Emit("translation_request_received", th[t].x.teacher_sid,
                          [student_sid |-> th[t].sid,
                           anonymous_id |-> th[t].x.anonymous_id,
                           language |-> th[t].x.language,
                           language_name |-> LanguageName(th[t].x.language)])>>
              ELSE <<>>)

\* handle_teacher_deny_translation
TeacherDenyTranslation(t, sid, code, student_sid) ==
    Gate(t, "teacher_deny_translation", sid, code, student_sid, "deny_write", NoPermission)

DenyTranslationWrite(t) ==
    Write(t, "deny_write",
          IF /\ th[t].code \in DOMAIN sessions
             /\ th[t].x \in DOMAIN sessions[th[t].code].translation_requests
          THEN [sessions EXCEPT ![th[t].code].translation_requests[th[t].x].status = "denied"]
          ELSE sessions,
          "deny_emit")

\* The confirmation reads the request's anonymous_id back from the session.
DenyTranslationEmit(t) ==
    LET code == th[t].code
        known == code \in DOMAIN sessions
                    /\ th[t].x \in DOMAIN sessions[code].translation_requests
    IN
    Finish(t, "deny_emit",
           << Emit("translation_denied", th[t].x,
                   [message |-> "Deine Uebersetzungsanfrage wurde abgelehnt."]),
              Emit("translation_request_removed", th[t].sid,
                   [student_sid |-> th[t].x,
                    anonymous_id |->
                        IF known
                        THEN sessions[code].translation_requests[th[t].x].anonymous_id
                        ELSE ""]) >>)

\* handle_teacher_approve_translation: the gate and the reads from the session
\* it returned (the request, the text, the keys)
TeacherApproveTranslation(t, sid, code, student_sid, layout) ==
    LET g == OwnerCheck(sessions, now, code, sid)
        h == "teacher_approve_translation"
        Stop(msg) ==
            /\ last' = Log(h, "get_session", sid, code, g.ret, g.pass,
                           SessionError(sid, msg), <<>>, TRUE)
            /\ UNCHANGED th
    IN
    /\ th[t].pc = "idle"
    /\ ops < MaxOps
    /\ ops' = ops + 1
    /\ sessions' = g.S
    /\ IF ~g.pass THEN Stop(NoPermission)
       ELSE LET session == CHOOSE s \in g.ret : TRUE IN
            IF student_sid \notin DOMAIN session.translation_requests
            THEN Stop("Anfrage nicht gefunden")
            ELSE IF session.text = ""
            THEN Stop("Kein Text zum Uebersetzen")
            ELSE /\ th' = [th EXCEPT ![t] =
                     [pc |-> IF session.keys.ai = "" THEN "approve_no_ai_write"
                                                     ELSE "approve_translate",
                      h |-> h, sid |-> sid, code |-> code,
                      x |-> [student_sid |-> student_sid, layout |-> layout,
                             language |-> session.translation_requests[student_sid].language,
                             anonymous_id |->
                                 session.translation_requests[student_sid].anonymous_id,
                             text |-> session.text,
                             ai_key |-> session.keys.ai,
                             ai_provider |-> session.keys.ai_provider,
                             translated_text |-> <<>>]]]
                 /\ last' = Log(h, "get_session", sid, code, g.ret, TRUE, <<>>, <<>>, FALSE)
    /\ UNCHANGED <<rooms, now, tts_cache, translation_cache, acc>>

\* Without an AI key: the status write (outside any try: a KeyError ends the
\* handler without an emission)
ApproveNoAiWrite(t) ==
    LET code == th[t].code
        student == th[t].x.student_sid
    IN
    /\ th[t].pc = "approve_no_ai_write"
    /\ IF code \in DOMAIN sessions
       THEN IF student \in DOMAIN sessions[code].translation_requests
            THEN /\ sessions' = [sessions EXCEPT
                        ![code].translation_requests[student].status =
                            "approved_no_translation"]
                 /\ th' = [th EXCEPT ![t].pc = "approve_no_ai_emit"]
            ELSE /\ th' = [th EXCEPT ![t] = Idle]
                 /\ UNCHANGED sessions
       ELSE /\ th' = [th EXCEPT ![t].pc = "approve_no_ai_emit"]
            /\ UNCHANGED sessions
    /\ last' = Log(th[t].h, "none", th[t].sid, code, {}, code \in DOMAIN sessions,
                   <<>>, <<>>, th'[t].pc = "idle")
    /\ UNCHANGED <<rooms, now, ops, tts_cache, translation_cache, acc>>

ApproveNoAiEmit(t) ==
    Finish(t, "approve_no_ai_emit",
           <<Emit("translation_approved", th[t].x.student_sid,
                  [language |-> th[t].x.language, translated_text |-> <<>>,
                   layout |-> th[t].x.layout,
                   message |-> "Uebersetzung genehmigt, aber kein AI-Key"])>>)

\* The URL and headers translate_text_with_ai sends: the request of the google
\* provider carries the key in its URL.
ProviderUrl(ai_provider, ai_key) ==
    IF ai_provider = "google" THEN <<"generativelanguage.googleapis.com", ai_key>>
    ELSE <<ai_provider>>

\* str(e) of what translate_text_with_ai raises: its own exception on a status
\* other than 200, or the exception of requests.post, which names the URL.
ProviderError(outcome, ai_provider, ai_key) ==
    IF outcome = "status" THEN <<"Uebersetzung fehlgeschlagen", ai_provider>>
    ELSE <<"requests">> \o ProviderUrl(ai_provider, ai_key)

\* translate_text_with_ai, called with no lock held
ApproveTranslate(t, outcome) ==
    /\ th[t].pc = "approve_translate"
    /\ IF outcome = "ok"
       THEN /\ th' = [th EXCEPT ![t].pc = "approve_write",
                                ![t].x.translated_text =
                                    Translation(th[t].x.text, th[t].x.language)]
            /\ last' = Log(th[t].h, "none", th[t].sid, th[t].code, {}, TRUE, <<>>, <<>>, FALSE)
       ELSE /\ th' = [th EXCEPT ![t] = Idle]
            /\ last' = Log(th[t].h, "none", th[t].sid, th[t].code, {}, FALSE,
                           <<Emit("session_error", th[t].sid,
                                  [error |-> <<"Uebersetzungsfehler">>
                                      \o ProviderError(outcome, th[t].x.ai_provider,
                                                       th[t].x.ai_key)])>>,
                           <<>>, TRUE)
    /\ UNCHANGED <<sessions, rooms, now, ops, tts_cache, translation_cache, acc>>

\* The status write after the provider answered (inside the try: a KeyError is
\* reported to the caller as session_error)
ApproveWrite(t) ==
    LET code == th[t].code
        student == th[t].x.student_sid
        keyerror == code \in DOMAIN sessions
                      /\ student \notin DOMAIN sessions[code].translation_requests
    IN
    /\ th[t].pc = "approve_write"
    /\ IF keyerror
       THEN /\ th' = [th EXCEPT ![t] = Idle]
            /\ UNCHANGED sessions
       ELSE /\ th' = [th EXCEPT ![t].pc = "approve_emit"]
            /\ sessions' =
                 IF code \in DOMAIN sessions
                 THEN [sessions EXCEPT
                         ![code].translation_requests[student].status = "approved",
                         ![code].translation_requests[student].translated_text =
                             th[t].x.translated_text]
                 ELSE sessions
    /\ last' = Log(th[t].h, "none", th[t].sid, code, {}, code \in DOMAIN sessions,
                   IF keyerror
                   THEN <<Emit("session_error", th[t].sid,
                               [error |-> <<"Uebersetzungsfehler", student>>])>>
                   ELSE <<>>,
                   <<>>, keyerror)
    /\ UNCHANGED <<rooms, now, ops, tts_cache, translation_cache, acc>>

ApproveEmit(t) ==
    Finish(t, "approve_emit",
           << Emit("translation_approved", th[t].x.student_sid,
                   [language |-> th[t].x.language,
                    language_name |-> LanguageName(th[t].x.language),
                    translated_text |-> th[t].x.translated_text,
                    layout |-> th[t].x.layout]),
              Emit("translation_sent", th[t].sid,
                   [student_sid |-> th[t].x.student_sid,
                    anonymous_id |-> th[t].x.anonymous_id, success |-> TRUE]) >>)

(***************************************************************************)
(* The session settings a student module fetches.                          *)
(***************************************************************************)
\* api_session_settings: /api/session/settings/<code>
ApiSessionSettings(t, code) ==
    LET r == get_session(sessions, now, code) IN
    /\ th[t].pc = "idle"
    /\ sessions' = r.S
    /\ last' = Log("api_session_settings", "get_session", None, code, r.ret, r.ret # {}, <<>>,
                   IF r.ret = {}
                   THEN Http(404, [error |-> <<"Session nicht gefunden">>])
                   ELSE LET keys == (CHOOSE s \in r.ret : TRUE).keys IN
                        Http(200, [code |-> code,
                                   stt_provider |-> IF keys.stt_provider = Absent
                                                    THEN "browser" ELSE keys.stt_provider,
                                   voice_id |-> keys.voice_id,
                                   has_elevenlabs |-> keys.elevenlabs # ""]),
                   TRUE)
    /\ UNCHANGED <<rooms, now, th, ops, tts_cache, translation_cache, acc>>

(***************************************************************************)
(* The two LRU caches.  A cache is the sequence of the OrderedDict's items, *)
(* first item first: popitem(last=False) removes the head, move_to_end and *)
(* a new key append at the tail.                                           *)
(***************************************************************************)
CacheKeys(C) == { C[i][1] : i \in DOMAIN C }

CacheIndex(C, key) == (CHOOSE i \in DOMAIN C : C[i][1] = key)

\* OrderedDict.move_to_end(key)
MoveToEnd(C, key) ==
    LET i == CHOOSE j \in DOMAIN C : C[j][1] = key
    IN  SubSeq(C, 1, i - 1) \o SubSeq(C, i + 1, Len(C)) \o <<C[i]>>

\* OrderedDict.popitem(last=False)
PopFirst(C) == Tail(C)

\* hashlib.md5(f"{text}|{voice_id}").hexdigest(): a digest, standing for the
\* string it was computed from without showing it
get_cache_key(text, voice_id) == [md5 |-> text \o "|" \o voice_id]

get_translation_cache_key(text, target_language) ==
    [md5 |-> text \o "|" \o target_language]

\* A lookup that returns the value and leaves the order alone.
get_from_cache_peek(C, cache_key) ==
    IF cache_key \in CacheKeys(C)
    THEN [ret |-> {C[CacheIndex(C, cache_key)][2]}, C |-> C]
    ELSE [ret |-> {}, C |-> C]

get_from_cache(C, cache_key) ==
    IF cache_key \in CacheKeys(C)
    THEN [ret |-> {C[CacheIndex(C, cache_key)][2]}, C |-> MoveToEnd(C, cache_key)]
    ELSE [ret |-> {}, C |-> C]

\* add_to_cache without the eviction.
add_to_cache_unbounded(C, cache_key, data) ==
    IF cache_key \in CacheKeys(C) THEN MoveToEnd(C, cache_key)
    ELSE Append(C, <<cache_key, data>>)

\* add_to_cache that stores nothing.
add_to_cache_forget(C, cache_key, data) == C

add_to_cache(C, cache_key, data) ==
    IF cache_key \in CacheKeys(C) THEN MoveToEnd(C, cache_key)
    ELSE Append(IF Len(C) >= MAX_CACHE_SIZE THEN PopFirst(C) ELSE C, <<cache_key, data>>)

\* get_from_translation_cache that drops the entry it returns.
get_from_translation_cache_drop(C, cache_key) ==
    IF cache_key \in CacheKeys(C)
    THEN [ret |-> {C[CacheIndex(C, cache_key)][2]},
          C |-> SubSeq(MoveToEnd(C, cache_key), 1, Len(C) - 1)]
    ELSE [ret |-> {}, C |-> C]

get_from_translation_cache(C, cache_key) ==
    IF cache_key \in CacheKeys(C)
    THEN [ret |-> {C[CacheIndex(C, cache_key)][2]}, C |-> MoveToEnd(C, cache_key)]
    ELSE [ret |-> {}, C |-> C]

add_to_translation_cache(C, cache_key, translated_text) ==
    IF cache_key \in CacheKeys(C) THEN MoveToEnd(C, cache_key)
    ELSE Append(IF Len(C) >= MAX_TRANSLATION_CACHE_SIZE THEN PopFirst(C) ELSE C,
                <<cache_key, translated_text>>)

(***************************************************************************)
(* /api/translate and /api/tts.                                            *)
(***************************************************************************)
\* str(e) of what call_openai_text, call_anthropic_text or call_google_text
\* raises: their own exception on a status other than 200, or the exception of
\* requests.post, which names the URL.
CallTextError(outcome, provider, api_key) ==
    IF outcome = "status" THEN <<provider, "Error">>
    ELSE <<"requests">> \o ProviderUrl(provider, api_key)

\* proxy_translate up to the cache lookup: the request's fields and the keys,
\* from the session (get_session_keys) or from the request itself
ProxyTranslate(t, session_code, api_key, provider, text, target_language) ==
    LET h == "proxy_translate"
        r == get_session(sessions, now, session_code)
        Reply(call, ok, resp) ==
            /\ last' = Log(h, call, None, session_code, r.ret, ok, <<>>, resp, TRUE)
            /\ UNCHANGED th
        Go(call, key, prov) ==
            IF key = ""
            THEN Reply(call, FALSE, Http(400, [error |-> <<"KI API Key erforderlich">>]))
            ELSE /\ th' = [th EXCEPT ![t] =
                     [pc |-> "translate_lookup", h |-> h, sid |-> None,
                      code |-> session_code,
                      x |-> [api_key |-> key, provider |-> prov, text |-> text,
                             target_language |-> target_language,
                             cache_key |-> get_translation_cache_key(text, target_language)]]]
                 /\ last' = Log(h, call, None, session_code, r.ret, TRUE, <<>>, <<>>, FALSE)
    IN
    /\ th[t].pc = "idle"
    /\ ops < MaxRequests
    /\ ops' = ops + 1
    /\ IF target_language = "de"
       THEN /\ Reply("none", TRUE, Http(200, [translated_text |-> <<text>>]))
            /\ UNCHANGED sessions
       ELSE IF session_code # ""
       THEN /\ sessions' = r.S
            /\ IF r.ret = {}
               THEN Reply("get_session", FALSE,
                          Http(404, [error |-> <<"Session nicht gefunden">>]))
               ELSE LET keys == (CHOOSE s \in r.ret : TRUE).keys
                    IN  Go("get_session", keys.ai, keys.ai_provider)
       ELSE /\ Go("none", api_key, provider)
            /\ UNCHANGED sessions
    /\ UNCHANGED <<rooms, now, tts_cache, translation_cache, acc>>

\* proxy_translate: get_from_translation_cache(cache_key)
TranslateLookup(t) ==
    LET g == get_from_translation_cache(translation_cache, th[t].x.cache_key) IN
    /\ th[t].pc = "translate_lookup"
    /\ translation_cache' = g.C
    /\ IF g.ret # {}
       THEN /\ acc' = Append(acc, <<"translation", th[t].x.cache_key>>)
            /\ th' = [th EXCEPT ![t] = Idle]
            /\ last' = Log(th[t].h, "get_from_translation_cache", None, th[t].code, {}, TRUE,
                           <<>>,
                           Http(200, [translated_text |-> CHOOSE v \in g.ret : TRUE,
                                      cached |-> TRUE]),
                           TRUE)
       ELSE /\ th' = [th EXCEPT ![t].pc = "translate_call"]
            /\ last' = Log(th[t].h, "get_from_translation_cache", None, th[t].code, {}, FALSE,
                           <<>>, <<>>, FALSE)
            /\ UNCHANGED acc
    /\ UNCHANGED <<sessions, rooms, now, ops, tts_cache>>

\* proxy_translate: the provider call and, when it returned a result,
\* add_to_translation_cache(cache_key, result)
TranslateCall(t, outcome) ==
    LET x == th[t].x
        known == x.provider \in {"openai", "anthropic", "google"}
        result == Translation(x.text, x.target_language)
    IN
    /\ th[t].pc = "translate_call"
    /\ th' = [th EXCEPT ![t] = Idle]
    /\ IF ~known
       THEN /\ last' = Log(th[t].h, "none", None, th[t].code, {}, FALSE, <<>>,
                           Http(400, [error |-> <<"Unbekannter Provider">>]), TRUE)
            /\ UNCHANGED <<translation_cache, acc>>
       ELSE IF outcome = "ok"
       THEN /\ translation_cache' =
                   add_to_translation_cache(translation_cache, x.cache_key, result)
            /\ acc' = Append(acc, <<"translation", x.cache_key>>)
            /\ last' = Log(th[t].h, "add_to_translation_cache", None, th[t].code, {}, TRUE,
                           <<>>, Http(200, [translated_text |-> result]), TRUE)
       ELSE /\ last' = Log(th[t].h, "none", None, th[t].code, {}, FALSE, <<>>,
                           Http(500, [error |-> CallTextError(outcome, x.provider, x.api_key)]),
                           TRUE)
            /\ UNCHANGED <<translation_cache, acc>>
    /\ UNCHANGED <<sessions, rooms, now, ops, tts_cache>>

\* LANGUAGE_FALLBACKS.get(language_code, language_code)
LanguageFallback(language_code) ==
    CASE language_code = "uk" -> "ru"
      [] language_code = "bg" -> "ru"
      [] OTHER -> language_code

\* What ElevenLabs returns for the text spoken by the voice.
Audio(text, language_code, voice_id) == <<"audio", text, language_code>>

DefaultVoice == "21m00Tcm4TlvDq8ikWAM"

\* proxy_tts up to the cache lookup.  voice_id is the request's field ("" when
\* it has none).
ProxyTts(t, session_code, api_key, text, voice_id, language_code) ==
    LET h == "proxy_tts"
        r == get_session(sessions, now, session_code)
        Reply(call, resp) ==
            /\ last' = Log(h, call, None, session_code, r.ret, FALSE, <<>>, resp, TRUE)
            /\ UNCHANGED th
        Go(call, key, voice) ==
            /\ th' = [th EXCEPT ![t] =
                  [pc |-> "tts_lookup", h |-> h, sid |-> None, code |-> session_code,
                   x |-> [api_key |-> key, voice_id |-> voice, text |-> text,
                          language_code |-> LanguageFallback(language_code),
                          cache_key |-> get_cache_key(
                              text \o LanguageFallback(language_code), voice)]]]
            /\ last' = Log(h, call, None, session_code, r.ret, TRUE, <<>>, <<>>, FALSE)
    IN
    /\ th[t].pc = "idle"
    /\ ops < MaxRequests
    /\ ops' = ops + 1
    /\ IF session_code # ""
       THEN /\ sessions' = r.S
            /\ IF r.ret = {}
               THEN Reply("get_session",
                          Http(404, [error |-> <<"Session nicht gefunden oder abgelaufen">>]))
               ELSE LET keys == (CHOOSE s \in r.ret : TRUE).keys
                    IN  Go("get_session", keys.elevenlabs,
                           IF voice_id # "" THEN voice_id ELSE keys.voice_id)
       ELSE /\ UNCHANGED sessions
            /\ IF api_key = ""
               THEN Reply("none",
                          Http(400, [error |-> <<"API Key oder Session-Code erforderlich">>]))
               ELSE Go("none", api_key, IF voice_id # "" THEN voice_id ELSE DefaultVoice)
    /\ UNCHANGED <<rooms, now, tts_cache, translation_cache, acc>>

\* proxy_tts: get_from_cache(cache_key)
TtsLookup(t) ==
    LET g == get_from_cache(tts_cache, th[t].x.cache_key) IN
    /\ th[t].pc = "tts_lookup"
    /\ tts_cache' = g.C
    /\ IF g.ret # {}
       THEN /\ acc' = Append(acc, <<"tts", th[t].x.cache_key>>)
            /\ th' = [th EXCEPT ![t] = Idle]
            /\ last' = Log(th[t].h, "get_from_cache", None, th[t].code, {}, TRUE, <<>>,
                           Http(200, [audio |-> CHOOSE v \in g.ret : TRUE]), TRUE)
       ELSE /\ th' = [th EXCEPT ![t].pc = "tts_call"]
            /\ last' = Log(th[t].h, "get_from_cache", None, th[t].code, {}, FALSE,
                           <<>>, <<>>, FALSE)
            /\ UNCHANGED acc
    /\ UNCHANGED <<sessions, rooms, now, ops, translation_cache>>

\* The ElevenLabs call of proxy_tts storing whatever came back, failures too.
TtsCallStoresAnyAnswer(t, outcome) ==
    LET x == th[t].x
        response_data == Audio(x.text, x.language_code, x.voice_id)
    IN
    /\ th[t].pc = "tts_call"
    /\ th' = [th EXCEPT ![t] = Idle]
    /\ tts_cache' = add_to_cache(tts_cache, x.cache_key, response_data)
    /\ acc' = Append(acc, <<"tts", x.cache_key>>)
    /\ last' = Log(th[t].h, "add_to_cache", None, th[t].code, {}, outcome = "ok", <<>>,
                   IF outcome = "ok" THEN Http(200, [audio |-> response_data])
                   ELSE Http(500, [error |-> <<"requests">>]), TRUE)
    /\ UNCHANGED <<sessions, rooms, now, ops, translation_cache>>

\* proxy_tts: the ElevenLabs call and, on status 200, add_to_cache(cache_key,
\* response_data).  The URL of the call names the voice.
TtsCall(t, outcome) ==
    LET x == th[t].x
        response_data == Audio(x.text, x.language_code, x.voice_id)
    IN
    /\ th[t].pc = "tts_call"
    /\ th' = [th EXCEPT ![t] = Idle]
    /\ IF outcome = "ok"
       THEN /\ tts_cache' = add_to_cache(tts_cache, x.cache_key, response_data)
            /\ acc' = Append(acc, <<"tts", x.cache_key>>)
            /\ last' = Log(th[t].h, "add_to_cache", None, th[t].code, {}, TRUE, <<>>,
                           Http(200, [audio |-> response_data]), TRUE)
       ELSE /\ last' = Log(th[t].h, "none", None, th[t].code, {}, FALSE, <<>>,
                           CASE outcome = "status" ->
                                    Http(401, [error |-> <<"ElevenLabs API Fehler">>])
                             [] outcome = "timeout" -> Http(504, [error |-> <<"Timeout">>])
                             [] OTHER ->
                                    Http(500, [error |-> <<"requests", "api.elevenlabs.io",
                                                           x.voice_id>>]),
                           TRUE)
            /\ UNCHANGED <<tts_cache, acc>>
    /\ UNCHANGED <<sessions, rooms, now, ops, translation_cache>>

(***************************************************************************)
(* Students: anonymous identities, joining and leaving.                    *)
(***************************************************************************)
\* How many entries of the catalogue (28 in the source) the model keeps.
CatalogueSize == 3

\* ANONYMOUS_ANIMALS: its first CatalogueSize entries, <<emoji, name>> each.
ANONYMOUS_ANIMALS ==
    SubSeq(<< <<"fox", "Fuchs">>, <<"bear", "Baer">>, <<"lion", "Loewe">>,
              <<"tiger", "Tiger">>, <<"panda", "Panda">>, <<"koala", "Koala">> >>,
           1, CatalogueSize)

\* The animal_index values of the students of `session`.
UsedIndices(session) ==
    {session.students[s].animal_index : s \in DOMAIN session.students}

\* The first i of `for i in range(n)` that passes the test `i in free`.
First(free) == CHOOSE i \in free : \A j \in free : i <= j

\* The last such i, for a loop that runs the other way.
Last(free) == CHOOSE i \in free : \A j \in free : i >= j

\* get_anonymous_name searching the catalogue from its end.
get_anonymous_name_reversed(S, session_code, idx) ==
    IF session_code \in DOMAIN S
    THEN LET free == (0 .. Len(ANONYMOUS_ANIMALS) - 1) \ UsedIndices(S[session_code])
         IN  IF free # {}
             THEN [index |-> Last(free),
                   emoji |-> ANONYMOUS_ANIMALS[Last(free) + 1][1],
                   name  |-> ANONYMOUS_ANIMALS[Last(free) + 1][2]]
             ELSE [index |-> idx,
                   emoji |-> ANONYMOUS_ANIMALS[idx + 1][1],
                   name  |-> ANONYMOUS_ANIMALS[idx + 1][2] \o " " \o
                             ToString(Cardinality(DOMAIN S[session_code].students) + 1)]
    ELSE [index |-> 0, emoji |-> ANONYMOUS_ANIMALS[1][1], name |-> ANONYMOUS_ANIMALS[1][2]]

\* get_anonymous_name: one locked block; idx is what random.randint draws when
\* every catalogue entry is in use.
get_anonymous_name(S, session_code, idx) ==
    IF session_code \in DOMAIN S
    THEN LET free == (0 .. Len(ANONYMOUS_ANIMALS) - 1) \ UsedIndices(S[session_code])
         IN  IF free # {}
             THEN [index |-> First(free),
                   emoji |-> ANONYMOUS_ANIMALS[First(free) + 1][1],
                   name  |-> ANONYMOUS_ANIMALS[First(free) + 1][2]]
             ELSE [index |-> idx,
                   emoji |-> ANONYMOUS_ANIMALS[idx + 1][1],
                   name  |-> ANONYMOUS_ANIMALS[idx + 1][2] \o " " \o
                             ToString(Cardinality(DOMAIN S[session_code].students) + 1)]
    ELSE [index |-> 0, emoji |-> ANONYMOUS_ANIMALS[1][1], name |-> ANONYMOUS_ANIMALS[1][2]]

\* The record add_student_to_session stores for a student.
NewStudent(student_name, animal, t) ==
    [ joined |-> t, name |-> student_name, animal_index |-> animal.index,
      animal_emoji |-> animal.emoji, animal_name |-> animal.name,
      anonymous_id |-> animal.emoji \o " " \o animal.name ]

\* handle_student_join_session: the lookup.  `session` is a reference to the
\* record; the worker keeps what it held in x.session.
StudentJoinSession(t, sid, code, name) ==
    LET r == get_session(sessions, now, code) IN
    /\ th[t].pc = "idle"
    /\ ops < MaxOps
    /\ ops' = ops + 1
    /\ sessions' = r.S
    /\ IF r.ret = {}
       THEN /\ last' = Log("student_join_session", "get_session", sid, code, {}, FALSE,
                           <<Emit("join_error", sid,
                                  [error |-> <<"Session nicht gefunden oder abgelaufen">>])>>,
                           <<>>, TRUE)
            /\ UNCHANGED th
       ELSE /\ th' = [th EXCEPT ![t] = [pc |-> "join_name", h |-> "student_join_session",
                         sid |-> sid, code |-> code,
                         x |-> [name |-> name, session |-> CHOOSE s \in r.ret : TRUE,
                                animal |-> {}, student_data |-> {}]]]
            /\ last' = Log("student_join_session", "get_session", sid, code, r.ret, TRUE,
                           <<>>, <<>>, FALSE)
    /\ UNCHANGED <<rooms, now, tts_cache, translation_cache, acc>>

\* add_student_to_session: the call of get_anonymous_name, the first
\* acquisition of sessions_lock
JoinAnonymousName(t, idx) ==
    /\ th[t].pc = "join_name"
    /\ th' = [th EXCEPT ![t].pc = "join_add",
                        ![t].x.animal = {get_anonymous_name(sessions, th[t].code, idx)}]
    /\ last' = Log(th[t].h, "get_anonymous_name", th[t].sid, th[t].code, {},
                   th[t].code \in DOMAIN sessions, <<>>, <<>>, FALSE)
    /\ UNCHANGED <<sessions, rooms, now, ops, tts_cache, translation_cache, acc>>

\* add_student_to_session: the insertion, a second acquisition of sessions_lock;
\* student_data is {} for None.
JoinAddStudent(t) ==
    LET code == th[t].code
        rec == NewStudent(th[t].x.name, CHOOSE a \in th[t].x.animal : TRUE, now)
    IN
    /\ th[t].pc = "join_add"
    /\ IF code \in DOMAIN sessions
       THEN /\ sessions' = [sessions EXCEPT ![code].students = DictSet(@, th[t].sid, rec)]
            /\ th' = [th EXCEPT ![t].pc = "join_reply", ![t].x.student_data = {rec}]
       ELSE /\ th' = [th EXCEPT ![t].pc = "join_reply"]
            /\ UNCHANGED sessions
    /\ last' = Log(th[t].h, "add_student_to_session", th[t].sid, code, {},
                   code \in DOMAIN sessions, <<>>, <<>>, FALSE)
    /\ UNCHANGED <<rooms, now, ops, tts_cache, translation_cache, acc>>

\* What the reference `session` of a worker shows: the record in the registry
\* while it is the one the lookup returned (same creation and owner), what the
\* worker saw of it once it is gone.
Referenced(S, code, session) ==
    IF /\ code \in DOMAIN S
       /\ S[code].created = session.created
       /\ S[code].teacher_sid = session.teacher_sid
       /\ S[code].keys = session.keys
    THEN S[code]
    ELSE session

\* The join_success payload built with an empty task list whatever was released.
JoinSuccessUnreleased(code, session, student_data) ==
    [ code |-> code,
      text |-> session.text,
      settings |-> session.settings,
      tasks_available |-> session.tasks_available,
      tasks |-> <<>>,
      anonymous_id |-> IF student_data = {} THEN "paw Gast"
                       ELSE (CHOOSE d \in student_data : TRUE).anonymous_id,
      animal_emoji |-> IF student_data = {} THEN "paw"
                       ELSE (CHOOSE d \in student_data : TRUE).animal_emoji,
      animal_name |-> IF student_data = {} THEN "Gast"
                      ELSE (CHOOSE d \in student_data : TRUE).animal_name,
      simplification_enabled |-> session.simplification_enabled ]

\* The join_success payload
JoinSuccess(code, session, student_data) ==
    [ code |-> code,
      text |-> session.text,
      settings |-> session.settings,
      tasks_available |-> session.tasks_available,
      tasks |-> IF session.tasks_available THEN session.tasks ELSE <<>>,
      anonymous_id |-> IF student_data = {} THEN "paw Gast"
                       ELSE (CHOOSE d \in student_data : TRUE).anonymous_id,
      animal_emoji |-> IF student_data = {} THEN "paw"
                       ELSE (CHOOSE d \in student_data : TRUE).animal_emoji,
      animal_name |-> IF student_data = {} THEN "Gast"
                      ELSE (CHOOSE d \in student_data : TRUE).animal_name,
      simplification_enabled |-> session.simplification_enabled ]

\* handle_student_join_session after add_student_to_session: join_room, the
\* confirmation and the notice to the owner
JoinReply(t) ==
    LET code == th[t].code
        sid == th[t].sid
        session == Referenced(sessions, code, th[t].x.session)
        data == th[t].x.student_data
    IN
    /\ th[t].pc = "join_reply"
    /\ rooms' = JoinRoom(rooms, code, sid)
    /\ th' = [th EXCEPT ![t] = Idle]
    /\ last' = Log(th[t].h, "none", sid, code, {}, TRUE,
                   <<Emit("join_success", sid, JoinSuccess(code, session, data))>>
                   \o IF session.teacher_sid # None
                      THEN <<Emit("student_joined", session.teacher_sid,
                                  [count |-> Cardinality(DOMAIN session.students),
                                   name |-> th[t].x.name,
                                   anonymous_id |->
                                       IF data = {} THEN "paw Gast"
                                       ELSE (CHOOSE d \in data : TRUE).anonymous_id,
                                   student_sid |-> sid])>>
                      ELSE <<>>,
                   <<>>, TRUE)
    /\ UNCHANGED <<sessions, now, ops, tts_cache, translation_cache, acc>>

(***************************************************************************)
(* The reply of a join, statement by statement.  JoinReply above takes     *)
(* the three statements in one step; under two workers another handler     *)
(* can run between them.                                                   *)
(***************************************************************************)
\* handle_student_join_session: join_room(code)
JoinEnterRoom(t) ==
    /\ th[t].pc = "join_reply"
    /\ rooms' = JoinRoom(rooms, th[t].code, th[t].sid)
    /\ th' = [th EXCEPT ![t].pc = "join_payload"]
    /\ last' = Log(th[t].h, "none", th[t].sid, th[t].code, {}, TRUE, <<>>, <<>>, FALSE)
    /\ UNCHANGED <<sessions, now, ops, tts_cache, translation_cache, acc>>

\* The argument of emit('join_success', {...}) is evaluated: the reads of
\* session.get('text', '') and the other fields.
JoinBuildPayload(t) ==
    LET session == Referenced(sessions, th[t].code, th[t].x.session)
        payload == JoinSuccess(th[t].code, session, th[t].x.student_data)
    IN
    /\ th[t].pc = "join_payload"
    /\ th' = [th EXCEPT ![t].pc = "join_emit",
                        ![t].x = [name |-> th[t].x.name, session |-> th[t].x.session,
                                  animal |-> th[t].x.animal,
                                  student_data |-> th[t].x.student_data,
                                  payload |-> payload]]
    /\ last' = Log(th[t].h, "none", th[t].sid, th[t].code, {}, TRUE, <<>>, <<>>, FALSE)
    /\ UNCHANGED <<sessions, rooms, now, ops, tts_cache, translation_cache, acc>>

\* emit('join_success', payload), then student_joined to the owner
JoinEmit(t) ==
    LET code == th[t].code
        sid == th[t].sid
        session == Referenced(sessions, code, th[t].x.session)
        data == th[t].x.student_data
    IN
    /\ th[t].pc = "join_emit"
    /\ th' = [th EXCEPT ![t] = Idle]
    /\ last' = Log(th[t].h, "none", sid, code, {}, TRUE,
                   <<Emit("join_success", sid, th[t].x.payload)>>
                   \o IF session.teacher_sid # None
                      THEN <<Emit("student_joined", session.teacher_sid,
                                  [count |-> Cardinality(DOMAIN session.students),
                                   name |-> th[t].x.name,
                                   anonymous_id |->
                                       IF data = {} THEN "paw Gast"
                                       ELSE (CHOOSE d \in data : TRUE).anonymous_id,
                                   student_sid |-> sid])>>
                      ELSE <<>>,
                   <<>>, TRUE)
    /\ UNCHANGED <<sessions, rooms, now, ops, tts_cache, translation_cache, acc>>

\* Only one of the sessions that hold student sid: a loop that stops at the
\* first.
SessionsOfFirst(S, sid) ==
    LET all == {c \in DOMAIN S : sid \in DOMAIN S[c].students}
    IN  IF all = {} THEN {} ELSE {CHOOSE c \in all : TRUE}

\* The sessions that hold student sid.
SessionsOf(S, sid) == {c \in DOMAIN S : sid \in DOMAIN S[c].students}

\* handle_disconnect: one locked block; the server takes a closed connection
\* out of every room.
HandleDisconnect(t, sid) ==
    LET left == SessionsOf(sessions, sid)
        Notices[C \in SUBSET left] ==
            IF C = {} THEN <<>>
            ELSE LET c == CHOOSE d \in C : TRUE IN
                 (IF sessions[c].teacher_sid # None
                  THEN <<Emit("student_left", sessions[c].teacher_sid,
                              [count |-> Cardinality(DOMAIN sessions[c].students) - 1])>>
                  ELSE <<>>) \o Notices[C \ {c}]
    IN
    /\ th[t].pc = "idle"
    /\ ops < MaxOps
    /\ ops' = ops + 1
    /\ sessions' = [c \in DOMAIN sessions |->
                       IF c \in left
                       THEN [sessions[c] EXCEPT !.students = DictDel(@, sid)]
                       ELSE sessions[c]]
    /\ rooms' = [r \in DOMAIN rooms |-> rooms[r] \ {sid}]
    /\ last' = Log("disconnect", "none", sid, "", {}, left # {}, Notices[left], <<>>, TRUE)
    /\ UNCHANGED <<now, th, tts_cache, translation_cache, acc>>

(***************************************************************************)
(* Level reports.                                                          *)
(***************************************************************************)
\* A local variable that no assignment has bound yet.
Unbound == "unbound"

\* The record handle_student_using_simplified stores.
NewLevel(level, anonymous_id, t) ==
    [ level |-> level, anonymous_id |-> anonymous_id, timestamp |-> t ]

\* handle_student_using_simplified: the lookup; without a session it returns.
StudentUsingSimplified(t, sid, code, level) ==
    LET r == get_session(sessions, now, code) IN
    /\ th[t].pc = "idle"
    /\ ops < MaxOps
    /\ ops' = ops + 1
    /\ sessions' = r.S
    /\ IF r.ret = {}
       THEN /\ last' = Log("student_using_simplified", "get_session", sid, code, {}, FALSE,
                           <<>>, <<>>, TRUE)
            /\ UNCHANGED th
       ELSE LET session == CHOOSE s \in r.ret : TRUE IN
            /\ th' = [th EXCEPT ![t] = [pc |-> "level_write",
                         h |-> "student_using_simplified", sid |-> sid, code |-> code,
                         x |-> [level |-> level, anonymous_id |-> Unbound,
                                teacher_sid |-> session.teacher_sid]]]
            /\ last' = Log("student_using_simplified", "get_session", sid, code, r.ret,
                           TRUE, <<>>, <<>>, FALSE)
    /\ UNCHANGED <<rooms, now, tts_cache, translation_cache, acc>>

\* The locked block: anonymous_id is bound only if the code is still there.
UsingSimplifiedWrite(t) ==
    LET code == th[t].code
        anonymous_id ==
            IF th[t].sid \in DOMAIN sessions[code].students
            THEN sessions[code].students[th[t].sid].anonymous_id
            ELSE None
    IN
    /\ th[t].pc = "level_write"
    /\ IF code \in DOMAIN sessions
       THEN /\ sessions' = [sessions EXCEPT ![code].student_levels =
                               DictSet(@, th[t].sid,
                                       NewLevel(th[t].x.level, anonymous_id, now))]
            /\ th' = [th EXCEPT ![t].pc = "level_emit",
                                ![t].x.anonymous_id = anonymous_id]
       ELSE /\ th' = [th EXCEPT ![t].pc = "level_emit"]
            /\ UNCHANGED sessions
    /\ last' = Log(th[t].h, "none", th[t].sid, code, {}, code \in DOMAIN sessions,
                   <<>>, <<>>, FALSE)
    /\ UNCHANGED <<rooms, now, ops, tts_cache, translation_cache, acc>>

\* After the lock: student_level_update to the owner; reading an unbound
\* anonymous_id raises and nothing is emitted.
UsingSimplifiedEmit(t) ==
    LET raises == th[t].x.teacher_sid # None /\ th[t].x.anonymous_id = Unbound IN
    /\ th[t].pc = "level_emit"
    /\ th' = [th EXCEPT ![t] = Idle]
    /\ last' = Log(th[t].h, "none", th[t].sid, th[t].code, {}, ~raises,
                   IF th[t].x.teacher_sid # None /\ ~raises
                   THEN <<Emit("student_level_update", th[t].x.teacher_sid,
                               [student_sid |-> th[t].sid,
                                anonymous_id |-> th[t].x.anonymous_id,
                                level |-> th[t].x.level])>>
                   ELSE <<>>,
                   <<>>, TRUE)
    /\ UNCHANGED <<sessions, rooms, now, ops, tts_cache, translation_cache, acc>>

(***************************************************************************)
(* The three locks: what each handler acquires, releases and calls, in     *)
(* the order of its code.                                                  *)
(***************************************************************************)
Locks == {"sessions_lock", "cache_lock", "translation_cache_lock"}

AcquireOp(l) == <<"acquire", l>>
ReleaseOp(l) == <<"release", l>>
\* A request to an external provider (requests.post / requests.get).
CallOp == <<"call", "provider">>

\* with l: a block that takes no lock and calls no provider
With(l) == <<AcquireOp(l), ReleaseOp(l)>>

\* get_session, get_session_keys, end_session, cleanup_expired_sessions
SessionBlock == With("sessions_lock")
\* create_session: generate_session_code, then the insertion
CreateBlocks == SessionBlock \o SessionBlock
\* add_student_to_session: get_anonymous_name, then the insertion
AddStudentBlocks == SessionBlock \o SessionBlock

\* The lock and provider operations on the longest path through each handler.
Programs ==
    [ session_cleanup_thread         |-> SessionBlock,
      api_create_session             |-> CreateBlocks,
      api_join_session               |-> SessionBlock,
      api_end_session                |-> SessionBlock,
      api_set_session_text           |-> SessionBlock,
      handle_disconnect              |-> SessionBlock,
      handle_student_join_session    |-> SessionBlock \o AddStudentBlocks,
      handle_teacher_end_session     |-> SessionBlock \o SessionBlock,
      handle_teacher_update_settings |-> SessionBlock \o SessionBlock,
      handle_student_request_translation |-> SessionBlock \o SessionBlock,
      handle_teacher_approve_translation |->
          SessionBlock \o <<CallOp>> \o SessionBlock,
      handle_teacher_release_tasks   |-> SessionBlock \o SessionBlock,
      handle_teacher_deny_translation |-> SessionBlock \o SessionBlock,
      handle_teacher_toggle_simplification |-> SessionBlock \o SessionBlock,
      handle_student_using_simplified |-> SessionBlock \o SessionBlock,
      handle_teacher_create_session  |-> CreateBlocks,
      api_session_status             |-> SessionBlock,
      api_session_settings           |-> SessionBlock,
      api_session_qr                 |-> SessionBlock,
      api_get_session_text           |-> SessionBlock,
      get_word_info                  |-> SessionBlock \o <<CallOp, CallOp>>,
      simplify_text                  |-> SessionBlock \o <<CallOp>>,
      api_generate_tasks             |-> SessionBlock \o <<CallOp>>,
      ocr_image                      |-> SessionBlock \o <<CallOp>>,
      proxy_speech_to_text           |-> SessionBlock \o <<CallOp>>,
      proxy_speech_to_text_scribe    |-> SessionBlock \o <<CallOp>>,
      proxy_tts                      |->
          SessionBlock \o With("cache_lock") \o <<CallOp>> \o With("cache_lock"),
      proxy_translate                |->
          SessionBlock \o With("translation_cache_lock") \o <<CallOp>>
              \o With("translation_cache_lock"),
      cache_stats                    |->
          With("cache_lock") \o With("translation_cache_lock") \o SessionBlock ]

Handlers == DOMAIN Programs

\* proxy_tts keeping cache_lock from the lookup to the insertion.
LockProgramAcrossCall(h) ==
    IF h = "proxy_tts"
    THEN SessionBlock \o <<AcquireOp("cache_lock"), CallOp, ReleaseOp("cache_lock")>>
    ELSE Programs[h]

\* cache_stats reading the three sizes in one nested block.
LockProgramNested(h) ==
    IF h = "cache_stats"
    THEN <<AcquireOp("cache_lock"), AcquireOp("translation_cache_lock"),
           AcquireOp("sessions_lock"), ReleaseOp("sessions_lock"),
           ReleaseOp("translation_cache_lock"), ReleaseOp("cache_lock")>>
    ELSE Programs[h]

LockProgram(h) == Programs[h]

\* Thread t is inside a handler, followed at the level of its locks.
Running(t) == th[t].pc = "locks"

\* The locks thread t holds.
HeldBy(t) == IF Running(t) THEN th[t].x.held ELSE {}

\* threading.Lock: free when no thread holds it (the holder included).
Free(l) == \A t \in Threads : l \notin HeldBy(t)

\* The operation thread t executes next.
NextOp(t) == Head(th[t].x.todo)

LockStep(t, call, x, done) ==
    /\ th' = [th EXCEPT ![t] = IF done THEN Idle ELSE [@ EXCEPT !.x = x]]
    /\ last' = Log(th[t].h, call, None, "", {}, TRUE, <<>>, <<>>, done)
    /\ UNCHANGED <<sessions, rooms, now, ops, tts_cache, translation_cache, acc>>

\* A thread enters handler h.
LockStart(t, h) ==
    /\ th[t].pc = "idle"
    /\ th' = [th EXCEPT ![t] = [pc |-> "locks", h |-> h, sid |-> None, code |-> "",
                                x |-> [todo |-> LockProgram(h), held |-> {}]]]
    /\ last' = Log(h, "none", None, "", {}, TRUE, <<>>, <<>>, FALSE)
    /\ UNCHANGED <<sessions, rooms, now, ops, tts_cache, translation_cache, acc>>

\* with l: on entry the thread waits until the lock is free.
LockAcquire(t) ==
    /\ Running(t) /\ th[t].x.todo # <<>>
    /\ NextOp(t)[1] = "acquire"
    /\ Free(NextOp(t)[2])
    /\ LockStep(t, "acquire",
                [todo |-> Tail(th[t].x.todo), held |-> th[t].x.held \cup {NextOp(t)[2]}],
                FALSE)

\* with l: on exit
LockRelease(t) ==
    /\ Running(t) /\ th[t].x.todo # <<>>
    /\ NextOp(t)[1] = "release"
    /\ LockStep(t, "release",
                [todo |-> Tail(th[t].x.todo), held |-> th[t].x.held \ {NextOp(t)[2]}],
                FALSE)

\* The provider answers, fails or times out (timeout=...): the call returns.
ProviderCall(t) ==
    /\ Running(t) /\ th[t].x.todo # <<>>
    /\ NextOp(t)[1] = "call"
    /\ LockStep(t, "call", [todo |-> Tail(th[t].x.todo), held |-> th[t].x.held], FALSE)

\* The handler returns: at its end, or earlier on a path that skips the rest
\* (an error reply, a cache hit); a with block releases its lock on the way out.
LockReturn(t) ==
    /\ Running(t)
    /\ th[t].x.held = {}
    /\ LockStep(t, "return", <<>>, TRUE)

(***************************************************************************)
(* Inputs.                                                                 *)
(***************************************************************************)
Keys(el, ai, provider, voice, stt) ==
    [elevenlabs |-> el, ai |-> ai, ai_provider |-> provider, voice_id |-> voice,
     stt_provider |-> stt]

\* What /api/session/create builds from the request (no stt_provider key).
ApiKeyInputs ==
    { Keys("", "", "openai", "VOICE-1", Absent),
      Keys("EL-KEY", "AI-KEY", "google", "VOICE-1", Absent) }

\* What teacher_create_session builds from the request.
SocketKeyInputs ==
    { Keys("", "", "openai", "VOICE-1", "browser"),
      Keys("EL-KEY", "AI-KEY", "google", "VOICE-1", "browser") }

(***************************************************************************)
(* The registry under concurrent creation, lookup, termination and sweep.  *)
(***************************************************************************)
NextRegistry ==
    \/ Tick
    \/ CleanupExpiredSessions
    \/ \E t \in Threads :
        \/ \E keys \in ApiKeyInputs : ApiCreateSession(t, keys)
        \/ \E code \in Codes : GenerateSessionCode(t, code)
        \/ CreateSession(t)
        \/ CreateReply(t)
        \/ \E code \in Codes : ApiJoinSession(t, code)
        \/ \E code \in Codes : ApiEndSession(t, None, code)
        \/ ApiEndEmit(t)

SpecRegistry == Init /\ [][NextRegistry]_vars

(***************************************************************************)
(* The socket handlers of one session's owner and of other connections,    *)
(* with the HTTP text and termination endpoints.                           *)
(***************************************************************************)
SyncThreads == {"w1"}
TeacherSids == {"c1"}
StudentSids == {"c2"}
SettingsInputs == {"S1"}
TaskInputs == {<<"T1">>}
TextInputs == {"Hallo Welt"}
LanguageInputs == {"tr"}

\* A teacher with an AI key and one without.
SyncKeyInputs ==
    { Keys("EL-KEY", "AI-KEY", "google", "VOICE-1", "browser"),
      Keys("EL-KEY", "", "openai", "VOICE-1", "browser") }

\* The session the classroom requests address; the other code is a bystander.
SyncCodes == {"AAAAAA"}

NextSync ==
    \/ Tick
    \/ \E t \in SyncThreads :
        \/ \E sid \in TeacherSids, keys \in SyncKeyInputs :
              TeacherCreateSession(t, sid, keys, "")
        \/ \E code \in Codes : GenerateSessionCode(t, code)
        \/ CreateSession(t)
        \/ CreateReply(t)
        \/ \E who \in StudentSids, code \in SyncCodes, text \in TextInputs :
              ApiSetSessionText(t, who, code, text)
        \/ \E sid \in Sids, code \in SyncCodes, settings \in SettingsInputs :
              TeacherUpdateSettings(t, sid, code, settings)
        \/ UpdateSettingsWrite(t)
        \/ UpdateSettingsEmit(t)
        \/ \E sid \in Sids, code \in SyncCodes, tasks \in TaskInputs :
              TeacherReleaseTasks(t, sid, code, tasks)
        \/ ReleaseTasksWrite(t)
        \/ ReleaseTasksEmit(t)
        \/ \E sid \in Sids, code \in SyncCodes, enabled \in {TRUE} :
              TeacherToggleSimplification(t, sid, code, enabled)
        \/ ToggleSimplificationWrite(t)
        \/ ToggleSimplificationEmit(t)
        \/ \E sid \in StudentSids, code \in SyncCodes, language \in LanguageInputs :
              StudentRequestTranslation(t, sid, code, language)
        \/ RequestTranslationWrite(t)
        \/ RequestTranslationEmit(t)
        \/ \E sid \in Sids, code \in SyncCodes, student \in StudentSids \cup SyncCodes :
              TeacherDenyTranslation(t, sid, code, student)
        \/ DenyTranslationWrite(t)
        \/ DenyTranslationEmit(t)
        \/ \E sid \in Sids, code \in SyncCodes, student \in StudentSids :
              TeacherApproveTranslation(t, sid, code, student, "side-by-side")
        \/ ApproveNoAiWrite(t)
        \/ ApproveNoAiEmit(t)
        \/ \E outcome \in {"ok", "status", "network"} : ApproveTranslate(t, outcome)
        \/ ApproveWrite(t)
        \/ ApproveEmit(t)

SpecSync == Init /\ [][NextSync]_vars

(***************************************************************************)
(* Ending a session: the socket handler and /api/session/end.              *)
(***************************************************************************)
NextEnd ==
    \/ Tick
    \/ \E t \in Threads :
        \/ \E sid \in TeacherSids, keys \in SocketKeyInputs :
              TeacherCreateSession(t, sid, keys, "")
        \/ \E code \in Codes : GenerateSessionCode(t, code)
        \/ CreateSession(t)
        \/ CreateReply(t)
        \/ \E sid \in Sids, code \in Codes : TeacherEndSession(t, sid, code)
        \/ TeacherEndBroadcast(t)
        \/ TeacherEndDelete(t)
        \/ \E who \in Sids, code \in Codes : ApiEndSession(t, who, code)
        \/ ApiEndEmit(t)

SpecEnd == Init /\ [][NextEnd]_vars

(***************************************************************************)
(* What leaves the server: settings, translation and speech for the        *)
(* students of a session.                                                  *)
(***************************************************************************)
LeakThreads == {"w1"}
Outcomes == {"ok", "status", "timeout", "network"}

NextLeak ==
    \/ Tick
    \/ \E t \in LeakThreads :
        \/ \E keys \in ApiKeyInputs : ApiCreateSession(t, keys)
        \/ \E code \in Codes : GenerateSessionCode(t, code)
        \/ CreateSession(t)
        \/ CreateReply(t)
        \/ \E code \in Codes : ApiSessionSettings(t, code)
        \/ \E code \in Codes, text \in {"Hallo"}, language \in {"de", "tr"} :
              ProxyTranslate(t, code, "", "openai", text, language)
        \/ TranslateLookup(t)
        \/ \E outcome \in Outcomes : TranslateCall(t, outcome)
        \/ \E code \in Codes, text \in {"Hallo"}, language \in {"de", "uk"} :
              ProxyTts(t, code, "", text, "", language)
        \/ TtsLookup(t)
        \/ \E outcome \in Outcomes : TtsCall(t, outcome)

SpecLeak == Init /\ [][NextLeak]_vars

(***************************************************************************)
(* The caches under requests that bring their own key.                     *)
(***************************************************************************)
CacheThreads == {"w1"}
TtsTexts == {"a", "b", "c", "d"}
TranslateTexts == {"a", "b", "c"}
TranslateLanguages == {"tr", "en"}

NextCache ==
    \E t \in CacheThreads :
        \/ \E text \in TtsTexts : ProxyTts(t, "", "EL-KEY", text, "", "de")
        \/ TtsLookup(t)
        \/ \E outcome \in {"ok", "status"} : TtsCall(t, outcome)
        \/ \E text \in TranslateTexts, language \in TranslateLanguages :
              ProxyTranslate(t, "", "AI-KEY", "openai", text, language)
        \/ TranslateLookup(t)
        \/ \E outcome \in {"ok", "status"} : TranslateCall(t, outcome)

SpecCache == Init /\ [][NextCache]_vars

(***************************************************************************)
(* The caches under two workers whose requests interleave.                 *)
(***************************************************************************)
ConcTexts == {"a", "b", "c"}

NextCacheConc ==
    \E t \in Threads :
        \/ \E text \in ConcTexts : ProxyTts(t, "", "EL-KEY", text, "", "de")
        \/ TtsLookup(t)
        \/ TtsCall(t, "ok")
        \/ \E text \in ConcTexts \cup {"d"} :
              ProxyTranslate(t, "", "AI-KEY", "openai", text, "tr")
        \/ TranslateLookup(t)
        \/ TranslateCall(t, "ok")

SpecCacheConc == Init /\ [][NextCacheConc]_vars

(***************************************************************************)
(* A classroom: the owner sets text, settings and tasks, students join and *)
(* leave.                                                                  *)
(***************************************************************************)
JoinThreads == {"w1"}
JoinSids == {"c2", "c3"}
NameInputs == {"Anna"}

NextJoin ==
    \/ Tick
    \/ \E t \in JoinThreads :
        \/ \E sid \in TeacherSids : TeacherCreateSession(t, sid, Keys("EL-KEY", "", "openai", "VOICE-1", "browser"), "")
        \/ \E code \in Codes : GenerateSessionCode(t, code)
        \/ CreateSession(t)
        \/ CreateReply(t)
        \/ \E who \in TeacherSids, code \in SyncCodes, text \in TextInputs :
              ApiSetSessionText(t, who, code, text)
        \/ \E sid \in TeacherSids, code \in SyncCodes, settings \in SettingsInputs :
              TeacherUpdateSettings(t, sid, code, settings)
        \/ UpdateSettingsWrite(t)
        \/ UpdateSettingsEmit(t)
        \/ \E sid \in TeacherSids, code \in SyncCodes, tasks \in TaskInputs :
              TeacherReleaseTasks(t, sid, code, tasks)
        \/ ReleaseTasksWrite(t)
        \/ ReleaseTasksEmit(t)
        \/ \E sid \in JoinSids, code \in SyncCodes, name \in NameInputs :
              StudentJoinSession(t, sid, code, name)
        \/ \E idx \in 0 .. Len(ANONYMOUS_ANIMALS) - 1 : JoinAnonymousName(t, idx)
        \/ JoinAddStudent(t)
        \/ JoinReply(t)
        \/ \E sid \in JoinSids : HandleDisconnect(t, sid)

SpecJoin == Init /\ [][NextJoin]_vars

(***************************************************************************)
(* Students joining and leaving under two workers, within the lifetime of  *)
(* a session.                                                              *)
(***************************************************************************)
ConcSids == {"c2", "c3", "c4"}

NextJoinConc ==
    \E t \in Threads :
        \/ \E sid \in TeacherSids : TeacherCreateSession(t, sid, Keys("EL-KEY", "", "openai", "VOICE-1", "browser"), "")
        \/ \E code \in SyncCodes : GenerateSessionCode(t, code)
        \/ CreateSession(t)
        \/ CreateReply(t)
        \/ \E sid \in ConcSids, code \in SyncCodes, name \in NameInputs :
              StudentJoinSession(t, sid, code, name)
        \/ \E idx \in 0 .. Len(ANONYMOUS_ANIMALS) - 1 : JoinAnonymousName(t, idx)
        \/ JoinAddStudent(t)
        \/ JoinReply(t)
        \/ \E sid \in ConcSids : HandleDisconnect(t, sid)

SpecJoinConc == Init /\ [][NextJoinConc]_vars

(***************************************************************************)
(* The owner's updates of one session under two workers.                   *)
(***************************************************************************)
OrderSettings == {"S1", "S2"}

NextOrder ==
    \E t \in Threads :
        \/ \E sid \in TeacherSids :
              TeacherCreateSession(t, sid, Keys("EL-KEY", "", "openai", "VOICE-1", "browser"), "")
        \/ \E code \in SyncCodes : GenerateSessionCode(t, code)
        \/ CreateSession(t)
        \/ CreateReply(t)
        \/ \E who \in TeacherSids, code \in SyncCodes, text \in TextInputs :
              ApiSetSessionText(t, who, code, text)
        \/ \E sid \in TeacherSids, code \in SyncCodes, settings \in OrderSettings :
              TeacherUpdateSettings(t, sid, code, settings)
        \/ UpdateSettingsWrite(t)
        \/ UpdateSettingsEmit(t)
        \/ \E sid \in TeacherSids, code \in SyncCodes, tasks \in TaskInputs :
              TeacherReleaseTasks(t, sid, code, tasks)
        \/ ReleaseTasksWrite(t)
        \/ ReleaseTasksEmit(t)

SpecOrder == Init /\ [][NextOrder]_vars

(***************************************************************************)
(* Students in several sessions, with and without an owner, who lose their *)
(* connection.                                                             *)
(***************************************************************************)
LeaveThreads == {"w1"}

NextLeave ==
    \E t \in LeaveThreads :
        \/ ApiCreateSession(t, Keys("EL-KEY", "AI-KEY", "google", "VOICE-1", Absent))
        \/ \E sid \in TeacherSids :
              TeacherCreateSession(t, sid, Keys("EL-KEY", "", "openai", "VOICE-1", "browser"), "")
        \/ \E code \in Codes : GenerateSessionCode(t, code)
        \/ CreateSession(t)
        \/ CreateReply(t)
        \/ \E sid \in JoinSids, code \in Codes, name \in NameInputs :
              StudentJoinSession(t, sid, code, name)
        \/ \E idx \in 0 .. Len(ANONYMOUS_ANIMALS) - 1 : JoinAnonymousName(t, idx)
        \/ JoinAddStudent(t)
        \/ JoinReply(t)
        \/ \E sid \in JoinSids \cup TeacherSids : HandleDisconnect(t, sid)

SpecLeave == Init /\ [][NextLeave]_vars

(***************************************************************************)
(* Owners who create sessions and lose their connection, under two workers.*)
(***************************************************************************)
NextOwner ==
    \E t \in Threads :
        \/ \E sid \in Sids :
              TeacherCreateSession(t, sid, Keys("EL-KEY", "", "openai", "VOICE-1", "browser"), "")
        \/ \E code \in SyncCodes : GenerateSessionCode(t, code)
        \/ CreateSession(t)
        \/ CreateReply(t)
        \/ \E who \in Sids, code \in SyncCodes, text \in TextInputs :
              ApiSetSessionText(t, who, code, text)
        \/ \E sid \in StudentSids, code \in SyncCodes, name \in NameInputs :
              StudentJoinSession(t, sid, code, name)
        \/ \E idx \in 0 .. Len(ANONYMOUS_ANIMALS) - 1 : JoinAnonymousName(t, idx)
        \/ JoinAddStudent(t)
        \/ JoinReply(t)
        \/ \E sid \in Sids : HandleDisconnect(t, sid)

SpecOwner == Init /\ [][NextOwner]_vars

(***************************************************************************)
(* A teacher who creates a session over HTTP and then connects over the    *)
(* socket.                                                                 *)
(***************************************************************************)
AttachThreads == {"w1"}

NextAttach ==
    \/ Tick
    \/ \E t \in AttachThreads :
        \/ ApiCreateSession(t, Keys("EL-KEY", "AI-KEY", "google", "VOICE-1", Absent))
        \/ \E sid \in TeacherSids :
              TeacherCreateSession(t, sid, Keys("EL-KEY", "AI-KEY", "google", "VOICE-1", "browser"), "")
        \/ \E code \in Codes : GenerateSessionCode(t, code)
        \/ CreateSession(t)
        \/ CreateReply(t)
        \/ \E sid \in TeacherSids, code \in Codes, settings \in SettingsInputs :
              TeacherUpdateSettings(t, sid, code, settings)
        \/ UpdateSettingsWrite(t)
        \/ UpdateSettingsEmit(t)
        \/ \E sid \in TeacherSids, code \in Codes : TeacherEndSession(t, sid, code)
        \/ TeacherEndBroadcast(t)
        \/ TeacherEndDelete(t)

SpecAttach == Init /\ [][NextAttach]_vars

(***************************************************************************)
(* A student who asks for a translation and joins again.                   *)
(***************************************************************************)
RejoinThreads == {"w1"}

NextRejoin ==
    \E t \in RejoinThreads :
        \/ \E sid \in TeacherSids :
              TeacherCreateSession(t, sid, Keys("EL-KEY", "AI-KEY", "google", "VOICE-1", "browser"), "")
        \/ \E code \in SyncCodes : GenerateSessionCode(t, code)
        \/ CreateSession(t)
        \/ CreateReply(t)
        \/ \E who \in TeacherSids, code \in SyncCodes, text \in TextInputs :
              ApiSetSessionText(t, who, code, text)
        \/ \E sid \in StudentSids, code \in SyncCodes, language \in LanguageInputs :
              StudentRequestTranslation(t, sid, code, language)
        \/ RequestTranslationWrite(t)
        \/ RequestTranslationEmit(t)
        \/ \E sid \in TeacherSids, code \in SyncCodes, student \in StudentSids :
              TeacherApproveTranslation(t, sid, code, student, "side-by-side")
        \/ ApproveTranslate(t, "ok")
        \/ ApproveWrite(t)
        \/ ApproveEmit(t)
        \/ \E sid \in StudentSids, code \in SyncCodes, name \in NameInputs :
              StudentJoinSession(t, sid, code, name)
        \/ \E idx \in 0 .. Len(ANONYMOUS_ANIMALS) - 1 : JoinAnonymousName(t, idx)
        \/ JoinAddStudent(t)
        \/ JoinReply(t)
        \/ \E sid \in StudentSids : HandleDisconnect(t, sid)

SpecRejoin == Init /\ [][NextRejoin]_vars

(***************************************************************************)
(* Sessions that are created and then left alone, with the sweep thread    *)
(* scheduled fairly.                                                       *)
(***************************************************************************)
SweepThreads == {"w1"}

NextSweep ==
    \/ Tick
    \/ CleanupExpiredSessions
    \/ \E t \in SweepThreads :
        \/ \E keys \in ApiKeyInputs : ApiCreateSession(t, keys)
        \/ \E code \in Codes : GenerateSessionCode(t, code)
        \/ CreateSession(t)
        \/ CreateReply(t)

\* session_cleanup_thread loops for ever: sleep, then cleanup_expired_sessions.
SpecSweep == Init /\ [][NextSweep]_vars /\ WF_vars(CleanupExpiredSessions)

(***************************************************************************)
(* One session from creation to expiry under every operation that          *)
(* addresses it.                                                           *)
(***************************************************************************)
LifeThreads == {"w1"}
LevelInputs == {"A1"}

NextLife ==
    \/ Tick
    \/ CleanupExpiredSessions
    \/ \E t \in LifeThreads :
        \/ \E sid \in TeacherSids, keys \in SyncKeyInputs :
              TeacherCreateSession(t, sid, keys, "")
        \/ \E code \in SyncCodes : GenerateSessionCode(t, code)
        \/ CreateSession(t)
        \/ CreateReply(t)
        \/ \E code \in SyncCodes : ApiJoinSession(t, code)
        \/ \E who \in TeacherSids, code \in SyncCodes, text \in TextInputs :
              ApiSetSessionText(t, who, code, text)
        \/ \E sid \in TeacherSids, code \in SyncCodes, settings \in SettingsInputs :
              TeacherUpdateSettings(t, sid, code, settings)
        \/ UpdateSettingsWrite(t)
        \/ UpdateSettingsEmit(t)
        \/ \E sid \in TeacherSids, code \in SyncCodes, tasks \in TaskInputs :
              TeacherReleaseTasks(t, sid, code, tasks)
        \/ ReleaseTasksWrite(t)
        \/ ReleaseTasksEmit(t)
        \/ \E sid \in StudentSids, code \in SyncCodes, language \in LanguageInputs :
              StudentRequestTranslation(t, sid, code, language)
        \/ RequestTranslationWrite(t)
        \/ RequestTranslationEmit(t)
        \/ \E sid \in TeacherSids, code \in SyncCodes, student \in StudentSids :
              TeacherDenyTranslation(t, sid, code, student)
        \/ DenyTranslationWrite(t)
        \/ DenyTranslationEmit(t)
        \/ \E sid \in TeacherSids, code \in SyncCodes, student \in StudentSids :
              TeacherApproveTranslation(t, sid, code, student, "side-by-side")
        \/ ApproveNoAiWrite(t)
        \/ ApproveNoAiEmit(t)
        \/ \E outcome \in {"ok"} : ApproveTranslate(t, outcome)
        \/ ApproveWrite(t)
        \/ ApproveEmit(t)
        \/ \E sid \in StudentSids, code \in SyncCodes, name \in NameInputs :
              StudentJoinSession(t, sid, code, name)
        \/ \E idx \in 0 .. Len(ANONYMOUS_ANIMALS) - 1 : JoinAnonymousName(t, idx)
        \/ JoinAddStudent(t)
        \/ JoinReply(t)
        \/ \E sid \in StudentSids : HandleDisconnect(t, sid)
        \/ \E sid \in StudentSids, code \in SyncCodes, level \in LevelInputs :
              StudentUsingSimplified(t, sid, code, level)
        \/ UsingSimplifiedWrite(t)
        \/ UsingSimplifiedEmit(t)

SpecLife == Init /\ [][NextLife]_vars

(***************************************************************************)
(* Two threads running any two handlers, or a handler and the sweep, at    *)
(* the level of their locks.                                               *)
(***************************************************************************)
NextLocks ==
    \E t \in Threads :
        \/ \E h \in Handlers : LockStart(t, h)
        \/ LockAcquire(t)
        \/ LockRelease(t)
        \/ ProviderCall(t)
        \/ LockReturn(t)

SpecLocks == Init /\ [][NextLocks]_vars

(***************************************************************************)
(* Provider calls that succeed, are refused, time out or cannot connect:   *)
(* translation approval and the two caching proxies.                       *)
(***************************************************************************)
FailThreads == {"w1"}
Outcomes3 == {"ok", "status", "timeout", "network"}

NextFail ==
    \E t \in FailThreads :
        \/ \E sid \in TeacherSids :
              TeacherCreateSession(t, sid, Keys("EL-KEY", "AI-KEY", "google", "VOICE-1", "browser"), "")
        \/ \E code \in SyncCodes : GenerateSessionCode(t, code)
        \/ CreateSession(t)
        \/ CreateReply(t)
        \/ \E who \in TeacherSids, code \in SyncCodes, text \in TextInputs :
              ApiSetSessionText(t, who, code, text)
        \/ \E sid \in StudentSids, code \in SyncCodes, language \in LanguageInputs :
              StudentRequestTranslation(t, sid, code, language)
        \/ RequestTranslationWrite(t)
        \/ RequestTranslationEmit(t)
        \/ \E sid \in TeacherSids, code \in SyncCodes, student \in StudentSids :
              TeacherApproveTranslation(t, sid, code, student, "side-by-side")
        \/ \E outcome \in Outcomes3 : ApproveTranslate(t, outcome)
        \/ ApproveWrite(t)
        \/ ApproveEmit(t)
        \/ \E text \in {"a", "b"} : ProxyTts(t, "", "EL-KEY", text, "", "de")
        \/ TtsLookup(t)
        \/ \E outcome \in Outcomes3 : TtsCall(t, outcome)
        \/ \E text \in {"a", "b"} : ProxyTranslate(t, "", "AI-KEY", "openai", text, "tr")
        \/ TranslateLookup(t)
        \/ \E outcome \in Outcomes3 : TranslateCall(t, outcome)

SpecFail == Init /\ [][NextFail]_vars

(***************************************************************************)
(* The sweep when one of its runs raises.                                  *)
(***************************************************************************)
NextSweepRaises ==
    \/ NextSweep
    \/ \E deleted \in SUBSET Codes : SweepRaises(deleted)

SpecSweepRaises ==
    Init /\ [][NextSweepRaises]_vars /\ WF_vars(CleanupExpiredSessions)

(***************************************************************************)
(* Two sessions side by side: every request names the first one, and       *)
(* students join either.                                                   *)
(***************************************************************************)
FrameThreads == {"w1"}

NextFrame ==
    \E t \in FrameThreads :
        \/ \E sid \in TeacherSids :
              TeacherCreateSession(t, sid, Keys("EL-KEY", "", "openai", "VOICE-1", "browser"), "")
        \/ \E code \in Codes : GenerateSessionCode(t, code)
        \/ CreateSession(t)
        \/ CreateReply(t)
        \/ \E who \in TeacherSids, code \in SyncCodes, text \in TextInputs :
              ApiSetSessionText(t, who, code, text)
        \/ \E sid \in TeacherSids, code \in SyncCodes, settings \in SettingsInputs :
              TeacherUpdateSettings(t, sid, code, settings)
        \/ UpdateSettingsWrite(t)
        \/ UpdateSettingsEmit(t)
        \/ \E sid \in TeacherSids, code \in SyncCodes, tasks \in TaskInputs :
              TeacherReleaseTasks(t, sid, code, tasks)
        \/ ReleaseTasksWrite(t)
        \/ ReleaseTasksEmit(t)
        \/ \E sid \in StudentSids, code \in SyncCodes, language \in LanguageInputs :
              StudentRequestTranslation(t, sid, code, language)
        \/ RequestTranslationWrite(t)
        \/ RequestTranslationEmit(t)
        \/ \E sid \in TeacherSids, code \in SyncCodes, student \in StudentSids \cup Codes :
              TeacherDenyTranslation(t, sid, code, student)
        \/ DenyTranslationWrite(t)
        \/ DenyTranslationEmit(t)
        \/ \E sid \in StudentSids, code \in Codes, name \in NameInputs :
              StudentJoinSession(t, sid, code, name)
        \/ \E idx \in 0 .. Len(ANONYMOUS_ANIMALS) - 1 : JoinAnonymousName(t, idx)
        \/ JoinAddStudent(t)
        \/ JoinReply(t)
        \/ \E sid \in TeacherSids, code \in SyncCodes : TeacherEndSession(t, sid, code)
        \/ TeacherEndBroadcast(t)
        \/ TeacherEndDelete(t)

SpecFrame == Init /\ [][NextFrame]_vars

(***************************************************************************)
(* The caches under requests whose fields run into one another.            *)
(***************************************************************************)
KeyThreads == {"w1"}
\* Synthesis requests: 'ad' in 'e' and 'a' in 'de'.
KeyTexts == {"a", "ad"}
KeyLanguages == {"de", "e"}
KeyVoices == {"v"}
\* Translation requests: 'a' into 'b|c' and 'a|b' into 'c'.
KeyTranslateTexts == {"a", "a|b"}
KeyTargets == {"c", "b|c"}

NextKeys ==
    \E t \in KeyThreads :
        \/ \E text \in KeyTexts, voice \in KeyVoices, language \in KeyLanguages :
              ProxyTts(t, "", "EL-KEY", text, voice, language)
        \/ TtsLookup(t)
        \/ \E outcome \in {"ok", "status"} : TtsCall(t, outcome)
        \/ \E text \in KeyTranslateTexts, language \in KeyTargets :
              ProxyTranslate(t, "", "AI-KEY", "openai", text, language)
        \/ TranslateLookup(t)
        \/ \E outcome \in {"ok", "status"} : TranslateCall(t, outcome)

SpecKeys == Init /\ [][NextKeys]_vars

(***************************************************************************)
(* An owner-only request in flight on one worker while, on the other, the  *)
(* session is ended and its code is given to a new session.                *)
(***************************************************************************)
OwnerThreads == {"w1"}
RegistryThreads == {"w2"}

NextStale ==
    \/ \E t \in RegistryThreads :
        \/ \E sid \in Sids :
              TeacherCreateSession(t, sid, Keys("EL-KEY", "", "openai", "VOICE-1", "browser"), "")
        \/ \E code \in SyncCodes : GenerateSessionCode(t, code)
        \/ CreateSession(t)
        \/ CreateReply(t)
        \/ \E sid \in Sids, code \in SyncCodes : TeacherEndSession(t, sid, code)
        \/ TeacherEndBroadcast(t)
        \/ TeacherEndDelete(t)
    \/ \E t \in OwnerThreads :
        \/ \E sid \in Sids, code \in SyncCodes, settings \in SettingsInputs :
              TeacherUpdateSettings(t, sid, code, settings)
        \/ UpdateSettingsWrite(t)
        \/ UpdateSettingsEmit(t)
        \/ \E sid \in Sids, code \in SyncCodes, tasks \in TaskInputs :
              TeacherReleaseTasks(t, sid, code, tasks)
        \/ ReleaseTasksWrite(t)
        \/ ReleaseTasksEmit(t)
        \/ \E sid \in Sids, code \in SyncCodes, enabled \in {TRUE} :
              TeacherToggleSimplification(t, sid, code, enabled)
        \/ ToggleSimplificationWrite(t)
        \/ ToggleSimplificationEmit(t)

SpecStale == Init /\ [][NextStale]_vars

(***************************************************************************)
(* Students joining on one worker while, on the other, sessions are        *)
(* created and ended.                                                      *)
(***************************************************************************)
NextJoinEnd ==
    \/ \E t \in RegistryThreads :
        \/ \E sid \in TeacherSids :
              TeacherCreateSession(t, sid, Keys("EL-KEY", "", "openai", "VOICE-1", "browser"), "")
        \/ \E code \in SyncCodes : GenerateSessionCode(t, code)
        \/ CreateSession(t)
        \/ CreateReply(t)
        \/ \E sid \in TeacherSids, code \in SyncCodes : TeacherEndSession(t, sid, code)
        \/ TeacherEndBroadcast(t)
        \/ TeacherEndDelete(t)
    \/ \E t \in JoinThreads :
        \/ \E sid \in JoinSids, code \in SyncCodes, name \in NameInputs :
              StudentJoinSession(t, sid, code, name)
        \/ \E idx \in 0 .. Len(ANONYMOUS_ANIMALS) - 1 : JoinAnonymousName(t, idx)
        \/ JoinAddStudent(t)
        \/ JoinReply(t)

SpecJoinEnd == Init /\ [][NextJoinEnd]_vars

(***************************************************************************)
(* One student joining while the text of the session is set.               *)
(***************************************************************************)
SnapshotTexts == {"Hallo Welt", "Neuer Text"}

NextSnapshot ==
    \/ \E t \in RegistryThreads :
        \/ \E sid \in TeacherSids :
              TeacherCreateSession(t, sid, Keys("EL-KEY", "", "openai", "VOICE-1", "browser"), "")
        \/ \E code \in SyncCodes : GenerateSessionCode(t, code)
        \/ CreateSession(t)
        \/ CreateReply(t)
        \/ \E who \in TeacherSids, code \in SyncCodes, text \in SnapshotTexts :
              ApiSetSessionText(t, who, code, text)
    \/ \E t \in JoinThreads :
        \/ \E sid \in StudentSids, code \in SyncCodes, name \in NameInputs :
              StudentJoinSession(t, sid, code, name)
        \/ \E idx \in 0 .. Len(ANONYMOUS_ANIMALS) - 1 : JoinAnonymousName(t, idx)
        \/ JoinAddStudent(t)
        \/ JoinEnterRoom(t)
        \/ JoinBuildPayload(t)
        \/ JoinEmit(t)

SpecSnapshot == Init /\ [][NextSnapshot]_vars

(***************************************************************************)
(* An approval in flight on one worker while the student asks again on the *)
(* other.                                                                  *)
(***************************************************************************)
RelangLanguages == {"tr", "en"}

NextRelang ==
    \/ \E t \in RegistryThreads :
        \/ \E sid \in TeacherSids :
              TeacherCreateSession(t, sid, Keys("EL-KEY", "AI-KEY", "google", "VOICE-1", "browser"), "")
        \/ \E code \in SyncCodes : GenerateSessionCode(t, code)
        \/ CreateSession(t)
        \/ CreateReply(t)
        \/ \E who \in TeacherSids, code \in SyncCodes, text \in TextInputs :
              ApiSetSessionText(t, who, code, text)
        \/ \E sid \in StudentSids, code \in SyncCodes, language \in RelangLanguages :
              StudentRequestTranslation(t, sid, code, language)
        \/ RequestTranslationWrite(t)
        \/ RequestTranslationEmit(t)
    \/ \E t \in OwnerThreads :
        \/ \E sid \in TeacherSids, code \in SyncCodes, student \in StudentSids :
              TeacherApproveTranslation(t, sid, code, student, "side-by-side")
        \/ \E outcome \in {"ok", "status"} : ApproveTranslate(t, outcome)
        \/ ApproveWrite(t)
        \/ ApproveEmit(t)

SpecRelang == Init /\ [][NextRelang]_vars

(***************************************************************************)
(* Properties of the registry.                                             *)
(***************************************************************************)
\* The registry R without the record under code c.
Without(R, c) == [d \in (DOMAIN R) \ {c} |-> R[d]]

\* C1: every create_session call inserts under a code that is not a key of the
\* registry at that moment, so no create overwrites an existing record, and two
\* calls that have both returned hold distinct codes.
C1_CreateNeverOverwrites ==
    /\ last.call = "create_session" => last.was = "missing"
    /\ \A t1, t2 \in Threads :
          (t1 # t2 /\ th[t1].pc = "create_reply" /\ th[t2].pc = "create_reply")
              => th[t1].code # th[t2].code

\* C6: get_session returns the record only if the code is present and
\* now < expires; a present record with now >= expires is deleted in the same
\* step and the result is absent; an absent code leaves the registry unchanged
\* and the result is absent.
C6_GetSession ==
    [][ last'.call = "get_session" =>
          LET c == last'.code IN
          /\ (c \in DOMAIN sessions /\ now < sessions[c].expires)
                => (last'.ret = {sessions[c]} /\ sessions' = sessions)
          /\ (c \in DOMAIN sessions /\ now >= sessions[c].expires)
                => (last'.ret = {} /\ sessions' = Without(sessions, c))
          /\ c \notin DOMAIN sessions
                => (last'.ret = {} /\ sessions' = sessions) ]_vars

\* A lookup has just found an expired record, removed it and returned absent.
C6_Witness ==
    /\ last.call = "get_session"
    /\ last.was = "expired"
    /\ last.ret = {}
    /\ last.code \notin DOMAIN sessions

\* C7: a lookup never returns a session whose expiry has passed, and
\* create_session never returns the code of an expired record that is still in
\* the registry.
C7_ExpiredStaysGone ==
    /\ (last.call = "get_session" /\ last.ok) => last.was = "live"
    /\ last.call = "create_session" => last.was # "expired"

\* C8: end_session deletes the record and returns True when the code is
\* present, returns False and changes nothing when it is not; called twice in
\* a row on one code it returns True then False, and a get_session right after
\* it returns absent.
C8_EndSession ==
    [][ LET c == last'.code IN
        /\ last'.call = "end_session" =>
              /\ c \in DOMAIN sessions
                    => (last'.ok /\ sessions' = Without(sessions, c))
              /\ c \notin DOMAIN sessions
                    => (~last'.ok /\ sessions' = sessions)
              /\ (last'.prev.call = "end_session" /\ last'.prev.code = c)
                    => ~last'.ok
        /\ (last'.call = "get_session" /\ last'.prev.call = "end_session"
                /\ last'.prev.code = c)
              => last'.ret = {} ]_vars

\* end_session has just returned False right after it returned True on the
\* same code.
C8_Witness ==
    /\ last.call = "end_session"
    /\ ~last.ok
    /\ last.prev = [call |-> "end_session", code |-> last.code, ok |-> TRUE]

\* C9: when cleanup_expired_sessions completes no session with expires <= now
\* is in the registry, and every session with expires > now is still there
\* with all its fields unchanged.
C9_Cleanup ==
    [][ last'.call = "cleanup_expired_sessions" =>
          /\ \A c \in DOMAIN sessions' : ~(sessions'[c].expires <= now')
          /\ \A c \in DOMAIN sessions :
                sessions[c].expires > now
                    => (c \in DOMAIN sessions' /\ sessions'[c] = sessions[c]) ]_vars

\* A sweep has just removed an expired session and kept a live one.
C9_Witness ==
    /\ last.call = "cleanup_expired_sessions"
    /\ last.ok
    /\ \E c \in DOMAIN sessions : sessions[c].expires > now

(***************************************************************************)
(* Properties of the classroom handlers.                                   *)
(***************************************************************************)
OwnerOnly ==
    { "teacher_update_settings", "teacher_release_tasks",
      "teacher_toggle_simplification", "teacher_approve_translation",
      "teacher_deny_translation" }

\* The step labelled l addresses a record whose teacher_sid is not l.sid.
Foreign(l) ==
    /\ l.code \in DOMAIN sessions
    /\ sessions[l.code].teacher_sid # l.sid

\* C2: a call of an owner-only handler by a connection that is not the
\* session's teacher_sid changes no field of any session, joins nobody to a
\* room, leaves every worker where it was (the handler ends in that step), and
\* sends exactly one session_error, to the caller.  The registry is the same
\* after the step; only a record whose expiry has passed is dropped by the
\* lookup, as in C6.
C2_OwnershipGate ==
    [][ (last'.h \in OwnerOnly /\ last'.call = "get_session" /\ Foreign(last'))
          => /\ sessions' = IF last'.was = "live" THEN sessions
                            ELSE Without(sessions, last'.code)
             /\ rooms' = rooms
             /\ \A t \in Threads : th'[t].pc = th[t].pc
             /\ last'.done
             /\ last'.resp = <<>>
             /\ Len(last'.emits) = 1
             /\ last'.emits[1].ev = "session_error"
             /\ last'.emits[1].to = last'.sid ]_vars

\* A connection that is not the teacher has just called
\* teacher_approve_translation on a live session that holds a text and a
\* pending request, and was refused.
C2_Witness ==
    /\ last.h = "teacher_approve_translation"
    /\ last.call = "get_session"
    /\ last.was = "live"
    /\ ~last.ok
    /\ last.code \in DOMAIN sessions
    /\ sessions[last.code].teacher_sid \notin {last.sid, None}
    /\ sessions[last.code].text # ""
    /\ \E s \in DOMAIN sessions[last.code].translation_requests :
          sessions[last.code].translation_requests[s].status = "pending"

\* An event of emits is named ev.
Emits(l, ev) == \E i \in DOMAIN l.emits : l.emits[i].ev = ev

\* C3: a text update requested by a caller that is not the session's teacher_sid
\* changes the text of no session and broadcasts no text_updated.
C3_TextOwnerOnly ==
    [][ (last'.h = "api_set_session_text" /\ Foreign(last'))
          => /\ \A c \in DOMAIN sessions :
                   c \in DOMAIN sessions' /\ sessions'[c].text = sessions[c].text
             /\ ~Emits(last', "text_updated") ]_vars

\* C4: an end request (teacher_end_session or /api/session/end) by a caller
\* that is not the teacher_sid of the live session it names leaves the session
\* in the registry and broadcasts no session_ended.
C4_EndOwnerOnly ==
    [][ ( /\ last'.h \in {"teacher_end_session", "api_end_session"}
          /\ Foreign(last')
          /\ now < sessions[last'.code].expires )
          => /\ last'.code \in DOMAIN sessions'
             /\ ~Emits(last', "session_ended") ]_vars

(***************************************************************************)
(* Properties of what leaves the server.                                   *)
(***************************************************************************)
\* The values of a credential bundle
BundleValues(keys) ==
    {keys.elevenlabs, keys.ai, keys.ai_provider, keys.voice_id, keys.stt_provider}
        \ {"", Absent}

Secrets == UNION { BundleValues(sessions[c].keys) : c \in DOMAIN sessions }

\* No part of the text (a sequence of its parts) is a credential.
Clean(text) == \A j \in DOMAIN text : text[j] \notin Secrets

\* The payload carries no credential in a field that holds text.
CleanPayload(b) ==
    /\ "error" \in DOMAIN b => Clean(b.error)
    /\ "translated_text" \in DOMAIN b => Clean(b.translated_text)
    /\ "audio" \in DOMAIN b => Clean(b.audio)
    /\ "voice_id" \in DOMAIN b => b.voice_id \notin Secrets
    /\ "stt_provider" \in DOMAIN b => b.stt_provider \notin Secrets

\* C5: no HTTP response, no event payload and no cached value contains a
\* value of the credential bundle of a session, on success or on an error
\* path that returns the exception text.  (A cache key is a digest.)
C5_NoCredentialLeak ==
    /\ \A i \in DOMAIN last.resp : CleanPayload(last.resp[i].body)
    /\ \A i \in DOMAIN last.emits : CleanPayload(last.emits[i].data)
    /\ \A i \in DOMAIN tts_cache : Clean(tts_cache[i][2])
    /\ \A i \in DOMAIN translation_cache : Clean(translation_cache[i][2])

(***************************************************************************)
(* Properties of the caches.                                               *)
(***************************************************************************)
\* The place in acc of the last access to `key` of cache `name`
LastAccess(name, key) ==
    CHOOSE i \in DOMAIN acc :
        /\ acc[i] = <<name, key>>
        /\ \A j \in DOMAIN acc : acc[j] = <<name, key>> => j <= i

\* The key of cache C (called `name` in acc) whose last access is the oldest
LeastRecent(name, C) ==
    CHOOSE k \in CacheKeys(C) :
        \A k2 \in CacheKeys(C) : LastAccess(name, k) <= LastAccess(name, k2)

\* Cache C became C2 by losing exactly the least recently accessed entry and
\* gaining `key`; every other entry is still there with its value.
EvictsLeastRecent(name, C, C2, key) ==
    LET victim == LeastRecent(name, C) IN
    /\ CacheKeys(C2) = (CacheKeys(C) \ {victim}) \cup {key}
    /\ Len(C2) = Len(C)
    /\ \A k \in CacheKeys(C) \ {victim} : C2[CacheIndex(C2, k)] = C[CacheIndex(C, k)]

\* C10: in each cache holding exactly its capacity of entries, the put of a new
\* key evicts exactly the entry whose last access (a successful get or a put)
\* is the oldest, so a successful get before the put moves the eviction to
\* another key; no other entry is removed.
C10_LruEviction ==
    [][ \A t \in Threads :
        /\ ( /\ th[t].pc = "tts_call" /\ th'[t].pc = "idle"
             /\ last'.call = "add_to_cache"
             /\ Len(tts_cache) = MAX_CACHE_SIZE
             /\ th[t].x.cache_key \notin CacheKeys(tts_cache) )
              => EvictsLeastRecent("tts", tts_cache, tts_cache', th[t].x.cache_key)
        /\ ( /\ th[t].pc = "translate_call" /\ th'[t].pc = "idle"
             /\ last'.call = "add_to_translation_cache"
             /\ Len(translation_cache) = MAX_TRANSLATION_CACHE_SIZE
             /\ th[t].x.cache_key \notin CacheKeys(translation_cache) )
              => EvictsLeastRecent("translation", translation_cache, translation_cache',
                                   th[t].x.cache_key) ]_vars

\* The full tts_cache has just taken a new key after a successful get of its
\* oldest entry: that entry is still cached, the one put after it is gone.
C10_Witness ==
    /\ last.call = "add_to_cache"
    /\ Len(acc) = MAX_CACHE_SIZE + 2
    /\ \A i \in DOMAIN acc : acc[i][1] = "tts"
    /\ acc[MAX_CACHE_SIZE + 1] = acc[1]
    /\ \A i \in 1..MAX_CACHE_SIZE : \A j \in 1..MAX_CACHE_SIZE : i # j => acc[i] # acc[j]
    /\ \A i \in 1..MAX_CACHE_SIZE : acc[MAX_CACHE_SIZE + 2] # acc[i]
    /\ acc[1][2] \in CacheKeys(tts_cache)
    /\ acc[2][2] \notin CacheKeys(tts_cache)

\* No key is cached twice.
NoDuplicateKeys(C) == \A i, j \in DOMAIN C : C[i][1] = C[j][1] => i = j

\* C11: in every reachable state, whatever the interleaving of the workers'
\* gets and puts, tts_cache holds at most MAX_CACHE_SIZE entries and
\* translation_cache at most MAX_TRANSLATION_CACHE_SIZE, each key once.
C11_CacheBounded ==
    /\ Len(tts_cache) <= MAX_CACHE_SIZE
    /\ Len(translation_cache) <= MAX_TRANSLATION_CACHE_SIZE
    /\ NoDuplicateKeys(tts_cache)
    /\ NoDuplicateKeys(translation_cache)

\* Both workers missed in tts_cache, and the put of the first has just found
\* the cache full and evicted; the put of the second is still to come.
C11_Witness ==
    /\ last.call = "add_to_cache"
    /\ Len(tts_cache) = MAX_CACHE_SIZE
    /\ Len(acc) > MAX_CACHE_SIZE
    /\ \A i \in DOMAIN acc : acc[i][1] = "tts"
    /\ \E t \in Threads : th[t].pc = "tts_call"

\* Cache C2 holds the items of C, in their order, with the one of `key` moved
\* to the end.
MovedToEnd(C, C2, key) ==
    /\ Len(C2) = Len(C)
    /\ C2[Len(C2)][1] = key
    /\ \A i \in DOMAIN C : \E j \in DOMAIN C2 : C2[j] = C[i]
    /\ \A i, j \in DOMAIN C :
          (i < j /\ C[i][1] # key /\ C[j][1] # key)
              => \E i2, j2 \in DOMAIN C2 : i2 < j2 /\ C2[i2] = C[i] /\ C2[j2] = C[j]

\* C12: a get on a present key returns the stored value and makes the key the
\* most recently used, with the keys and the values as they were; a get on an
\* absent key returns absent and leaves the cache, its order included, as it
\* was.
C12_CacheGet ==
    [][ \A t \in Threads :
        /\ (th[t].pc = "tts_lookup" /\ th'[t].pc # "tts_lookup") =>
              LET key == th[t].x.cache_key IN
              IF key \in CacheKeys(tts_cache)
              THEN /\ last'.ok
                   /\ last'.resp[1].body.audio = tts_cache[CacheIndex(tts_cache, key)][2]
                   /\ MovedToEnd(tts_cache, tts_cache', key)
              ELSE ~last'.ok /\ last'.resp = <<>> /\ tts_cache' = tts_cache
        /\ (th[t].pc = "translate_lookup" /\ th'[t].pc # "translate_lookup") =>
              LET key == th[t].x.cache_key IN
              IF key \in CacheKeys(translation_cache)
              THEN /\ last'.ok
                   /\ last'.resp[1].body.translated_text =
                          translation_cache[CacheIndex(translation_cache, key)][2]
                   /\ MovedToEnd(translation_cache, translation_cache', key)
              ELSE ~last'.ok /\ last'.resp = <<>>
                      /\ translation_cache' = translation_cache ]_vars

\* A get has just hit a translation_cache key that was not the most recently
\* used one, and the key is now last in the order.
C12_Witness ==
    /\ last.call = "get_from_translation_cache"
    /\ last.ok
    /\ Len(acc) >= 3
    /\ acc[Len(acc)][1] = "translation"
    /\ acc[Len(acc) - 1][1] = "translation"
    /\ acc[Len(acc) - 1] # acc[Len(acc)]
    /\ translation_cache[Len(translation_cache)][1] = acc[Len(acc)][2]

(***************************************************************************)
(* Properties of joining.                                                  *)
(***************************************************************************)
\* The emissions of step l that carry event ev.
EmissionsOf(l, ev) == {l.emits[i] : i \in {j \in DOMAIN l.emits : l.emits[j].ev = ev}}

\* C13: a join_success goes to the joining connection and carries what the
\* session holds at that moment: its text ("" while none was set), its
\* settings, and its task list once tasks were released (an empty list
\* before), whether or not the connection was in the room when these were
\* broadcast.
C13_JoinCatchesUp ==
    [][\A e \in EmissionsOf(last', "join_success") :
          /\ last'.code \in DOMAIN sessions
          /\ e.to = last'.sid
          /\ e.data.text = sessions[last'.code].text
          /\ e.data.settings = sessions[last'.code].settings
          /\ e.data.tasks_available = sessions[last'.code].tasks_available
          /\ e.data.tasks = IF sessions[last'.code].tasks_available
                            THEN sessions[last'.code].tasks ELSE <<>>]_vars

\* A student who was in no room joined after text, settings and tasks were
\* set, and the confirmation carries all three.
C13_Witness ==
    /\ \E e \in EmissionsOf(last, "join_success") :
          /\ e.data.text \in TextInputs
          /\ e.data.settings \in SettingsInputs
          /\ e.data.tasks \in TaskInputs
          /\ rooms[last.code] = {"c1", e.to}
    /\ ops = 4

(***************************************************************************)
(* Properties of the end of a session.                                     *)
(***************************************************************************)
\* Step l broadcasts session_ended to the room of code c.
Announces(l, c) ==
    \E i \in DOMAIN l.emits : l.emits[i].ev = "session_ended" /\ l.emits[i].to = c

\* C14: every step that removes a session record belongs to a handler that
\* broadcasts session_ended to the session's room: in the same step, in the
\* step before the removal (teacher_end_session) or in the step that follows
\* it (/api/session/end).
C14_RemovalIsAnnounced ==
    [][\A c \in (DOMAIN sessions) \ (DOMAIN sessions') :
          \/ Announces(last', c)
          \/ \E t \in Threads : /\ th[t].pc = "end_delete"
                                 /\ th[t].code = c
                                 /\ th'[t].pc = "idle"
          \/ \E t \in Threads : /\ th[t].pc = "idle"
                                 /\ th'[t].pc = "api_end_emit"
                                 /\ th'[t].code = c]_vars

\* C15: a session_ended broadcast to the room of a code is not a second one:
\* when a worker broadcasts it for an end request, no other worker's end
\* request on the same code has already broadcast it and not yet returned
\* (teacher_end_session between its broadcast and its end_session).
C15_OneBroadcastPerEnd ==
    [][\A t \in Threads :
          (th[t].pc \in {"end_broadcast", "api_end_emit"}
              /\ th'[t].pc # th[t].pc
              /\ Announces(last', th[t].code))
          => \A u \in Threads \ {t} :
                ~(th[u].code = th[t].code /\ th[u].pc = "end_delete")]_vars

(***************************************************************************)
(* Properties of translation requests.                                     *)
(***************************************************************************)
\* The statuses a decision of the owner leaves.
Decided == {"approved", "approved_no_translation", "denied"}

\* C16: a decided translation request (approved, approved_no_translation or
\* denied) keeps its status and its translated text in every step but a new
\* student_request_translation of the same participant.
C16_DecidedStaysDecided ==
    [][\A c \in (DOMAIN sessions) \cap (DOMAIN sessions') :
          \A s \in (DOMAIN sessions[c].translation_requests)
                       \cap (DOMAIN sessions'[c].translation_requests) :
             LET old == sessions[c].translation_requests[s]
                 new == sessions'[c].translation_requests[s]
             IN  (old.status \in Decided
                     /\ (new.status # old.status
                            \/ new.translated_text # old.translated_text))
                 => (last'.h = "student_request_translation" /\ last'.sid = s)]_vars

\* C17: the write of student_request_translation leaves, under the requesting
\* participant, a pending record with the requested language and no
\* translated text, whatever record (of any status) the participant had; the
\* records are keyed by participant, and those of the others are untouched.
C17_RequestReplaces ==
    [][\A t \in Threads :
          (th[t].pc = "request_write" /\ th'[t].pc = "request_emit"
              /\ th[t].code \in DOMAIN sessions)
          => LET old == sessions[th[t].code].translation_requests
                 new == sessions'[th[t].code].translation_requests
             IN  /\ DOMAIN new = (DOMAIN old) \cup {th[t].sid}
                 /\ new[th[t].sid].status = "pending"
                 /\ new[th[t].sid].language = th[t].x.language
                 /\ new[th[t].sid].translated_text = <<>>
                 /\ \A s \in (DOMAIN old) \ {th[t].sid} : new[s] = old[s]]_vars

\* A participant whose request was approved and carries a translation asks
\* again: the worker is at the write that replaces the record.
C17_Witness ==
    \E t \in Threads :
        /\ th[t].pc = "request_write"
        /\ th[t].code \in DOMAIN sessions
        /\ th[t].sid \in DOMAIN sessions[th[t].code].translation_requests
        /\ sessions[th[t].code].translation_requests[th[t].sid].status = "approved"
        /\ sessions[th[t].code].translation_requests[th[t].sid].translated_text # <<>>

\* The connection ids of the model.
Connections == Sids \cup JoinSids \cup ConcSids

\* C18: translation_approved and translation_denied go to one connection,
\* never to the room of a session.
C18_OnlyToRequester ==
    \A i \in DOMAIN last.emits :
        last.emits[i].ev \in {"translation_approved", "translation_denied"}
        => /\ last.emits[i].to \in Connections
           /\ last.emits[i].to \notin DOMAIN rooms

(***************************************************************************)
(* Properties of the anonymous identities.                                 *)
(***************************************************************************)
\* No two students of `session` hold the same animal_index.
DistinctIndices(session) ==
    \A a, b \in DOMAIN session.students :
        session.students[a].animal_index = session.students[b].animal_index => a = b

\* C19: the insertion of a joiner into a session that has fewer students than
\* the catalogue has entries, and whose students hold distinct indices, leaves
\* the students with distinct indices.
C19_JoinKeepsDistinct ==
    [][\A t \in Threads :
          (/\ th[t].pc = "join_add"
           /\ th'[t].pc = "join_reply"
           /\ th[t].code \in DOMAIN sessions
           /\ Cardinality(DOMAIN sessions[th[t].code].students) < Len(ANONYMOUS_ANIMALS)
           /\ DistinctIndices(sessions[th[t].code]))
          => DistinctIndices(sessions'[th[t].code])]_vars

\* The indices the students of the session under code c hold in registry S.
Held(S, c) == {S[c].students[s].animal_index : s \in DOMAIN S[c].students}

\* Index i is the smallest catalogue index outside the set `held`.
LowestFree(i, held) ==
    /\ i \in 0 .. Len(ANONYMOUS_ANIMALS) - 1
    /\ i \notin held
    /\ \A j \in 0 .. i - 1 : j \in held

\* C20: for a present session with a catalogue index that no student holds,
\* get_anonymous_name returns the smallest such index with the catalogue
\* entry at that index, and the joiner is inserted with the smallest index
\* that no student held, with that entry's emoji and name.
C20_LowestFreeIdentity ==
    [][\A t \in JoinThreads :
          LET c == th[t].code IN
          (c \in DOMAIN sessions
              /\ \E i \in 0 .. Len(ANONYMOUS_ANIMALS) - 1 : i \notin Held(sessions, c))
          => /\ (th[t].pc = "join_name" /\ th'[t].pc = "join_add")
                => \A a \in th'[t].x.animal :
                      /\ LowestFree(a.index, Held(sessions, c))
                      /\ a.emoji = ANONYMOUS_ANIMALS[a.index + 1][1]
                      /\ a.name = ANONYMOUS_ANIMALS[a.index + 1][2]
             /\ (th[t].pc = "join_add" /\ th'[t].pc = "join_reply")
                => LET d == sessions'[c].students[th[t].sid] IN
                   /\ LowestFree(d.animal_index, Held(sessions, c))
                   /\ d.animal_emoji = ANONYMOUS_ANIMALS[d.animal_index + 1][1]
                   /\ d.animal_name = ANONYMOUS_ANIMALS[d.animal_index + 1][2]
                   /\ d.anonymous_id = d.animal_emoji \o " " \o d.animal_name]_vars

\* A joiner who was not in the session at its lookup was inserted with index
\* 0 while another student holds index 1: index 0 had been given out and was
\* free again.
C20_Witness ==
    \E t \in JoinThreads :
        /\ th[t].pc = "join_reply"
        /\ th[t].code \in DOMAIN sessions
        /\ th[t].sid \notin DOMAIN th[t].x.session.students
        /\ th[t].sid \in DOMAIN sessions[th[t].code].students
        /\ sessions[th[t].code].students[th[t].sid].animal_index = 0
        /\ \E o \in DOMAIN sessions[th[t].code].students :
              sessions[th[t].code].students[o].animal_index = 1

(***************************************************************************)
(* Properties of expiry.                                                   *)
(***************************************************************************)
\* Step l sends an event to the room of a session.
Broadcasts(l) == \E i \in DOMAIN l.emits : l.emits[i].to \in DOMAIN rooms

\* C21: a request that arrives while no handler is running and addresses a
\* code whose record is expired but still in the registry changes no field of
\* that record (it may remove it) and broadcasts nothing.
C21_ExpiredIsAbsent ==
    [][(/\ \A t \in Threads : th[t].pc = "idle"
        /\ last'.h # "none"
        /\ last'.code \in DOMAIN sessions
        /\ now >= sessions[last'.code].expires)
       => /\ ~Broadcasts(last')
          /\ last'.code \in DOMAIN sessions'
                => sessions'[last'.code] = sessions[last'.code]]_vars

(***************************************************************************)
(* Properties of the order of broadcasts.                                  *)
(***************************************************************************)
\* C22: broadcasts follow the order of the writes, so once every handler has
\* returned, the settings_updated broadcast sent last carries the settings
\* written last, those the session record holds.
C22_BroadcastOrder ==
    (\A t \in Threads : th[t].pc = "idle")
    => \A i \in DOMAIN last.emits :
          (last.emits[i].ev = "settings_updated" /\ last.emits[i].to \in DOMAIN sessions)
          => last.emits[i].data.settings = sessions[last.emits[i].to].settings

(***************************************************************************)
(* Properties of the loss of a connection.                                 *)
(***************************************************************************)
\* The sessions of registry S that hold student c and have an owner connection.
OwnedWith(S, c) ==
    {k \in DOMAIN S : c \in DOMAIN S[k].students /\ S[k].teacher_sid # None}

\* C23: the loss of connection c takes c out of the students of every session
\* that holds it and changes nothing else; every such session with an owner
\* connection gets one student_left, sent to the owner with the number of
\* students after the removal, and nothing else is emitted.
C23_Disconnect ==
    [][last'.h = "disconnect"
       => LET c == last'.sid IN
          /\ DOMAIN sessions' = DOMAIN sessions
          /\ \A k \in DOMAIN sessions :
                /\ DOMAIN sessions'[k].students = (DOMAIN sessions[k].students) \ {c}
                /\ \A s \in DOMAIN sessions'[k].students :
                      sessions'[k].students[s] = sessions[k].students[s]
                /\ [sessions'[k] EXCEPT !.students = EmptyDict]
                      = [sessions[k] EXCEPT !.students = EmptyDict]
          /\ Len(last'.emits) = Cardinality(OwnedWith(sessions, c))
          /\ \A i \in DOMAIN last'.emits : last'.emits[i].ev = "student_left"
          /\ \A k \in OwnedWith(sessions, c) :
                \E i \in DOMAIN last'.emits :
                   /\ last'.emits[i].to = sessions[k].teacher_sid
                   /\ last'.emits[i].data.count = Cardinality(DOMAIN sessions[k].students) - 1
                   /\ last'.emits[i].data.count = Cardinality(DOMAIN sessions'[k].students)]_vars

\* A connection that was a student of two sessions with an owner was lost: the
\* owner got two student_left and no session holds the connection any more.
C23_Witness ==
    /\ last.h = "disconnect"
    /\ Len(last.emits) = 2
    /\ \A k \in DOMAIN sessions : last.sid \notin DOMAIN sessions[k].students

\* C24: a session keeps its owner and survives the owner's loss of
\* connection: while a code stays in the registry, a teacher_sid that is set
\* is not changed by any step, and a disconnect removes no session and changes
\* no text, settings or tasks.
C24_OwnerIsFixed ==
    [][/\ \A c \in (DOMAIN sessions) \cap (DOMAIN sessions') :
             sessions[c].teacher_sid # None
             => sessions'[c].teacher_sid = sessions[c].teacher_sid
       /\ last'.h = "disconnect"
             => /\ DOMAIN sessions' = DOMAIN sessions
                /\ \A c \in DOMAIN sessions :
                      /\ sessions'[c].text = sessions[c].text
                      /\ sessions'[c].settings = sessions[c].settings
                      /\ sessions'[c].tasks = sessions[c].tasks]_vars

(***************************************************************************)
(* Properties of ownership.                                                *)
(***************************************************************************)
\* Connection sid has attached over the socket: it is in a room.
Attached(sid) == \E r \in DOMAIN rooms : sid \in rooms[r]

\* C25: a session created without an owner gets the teacher's connection as
\* its owner when that connection attaches over the socket: an owner action
\* of the attached teacher on a live session created over HTTP passes the
\* ownership check.
C25_AttachMakesOwner ==
    [][\A sid \in TeacherSids :
          (/\ last'.call = "get_session"
           /\ last'.sid = sid
           /\ last'.h \in {"teacher_update_settings", "teacher_end_session"}
           /\ Attached(sid)
           /\ last'.code \in DOMAIN sessions
           /\ now < sessions[last'.code].expires
           /\ sessions[last'.code].teacher_sid = None)
          => last'.ok]_vars

\* A session created over HTTP never has an owner connection.
UnownedStaysUnowned ==
    [][\A c \in (DOMAIN sessions) \cap (DOMAIN sessions') :
          (sessions[c].teacher_sid = None /\ sessions[c].created = sessions'[c].created)
          => sessions'[c].teacher_sid = None]_vars

(***************************************************************************)
(* Properties of repeated synthesis requests.                              *)
(***************************************************************************)
\* The value cache C stores under key.
Stored(C, key) == C[CHOOSE i \in DOMAIN C : C[i][1] = key][2]

\* C26: a synthesis answered by the provider is in the cache under the
\* request's key, with the provider's result unless the key was there already;
\* and a request whose key is in the cache (no eviction since) is answered
\* 200 with exactly the stored result and returns without calling the
\* provider, the stored result staying as it is.
C26_SecondFromCache ==
    [][\A t \in Threads :
          LET key == th[t].x.cache_key IN
          /\ (th[t].pc = "tts_call" /\ th'[t].pc = "idle" /\ last'.ok)
             => /\ key \in CacheKeys(tts_cache')
                /\ last'.resp[1].status = 200
                /\ key \notin CacheKeys(tts_cache)
                      => Stored(tts_cache', key) = last'.resp[1].body.audio
                /\ key \in CacheKeys(tts_cache)
                      => Stored(tts_cache', key) = Stored(tts_cache, key)
          /\ (th[t].pc = "tts_lookup" /\ th'[t].pc # "tts_lookup"
                 /\ key \in CacheKeys(tts_cache))
             => /\ th'[t].pc = "idle"
                /\ last'.call = "get_from_cache"
                /\ last'.resp = Http(200, [audio |-> Stored(tts_cache, key)])
                /\ Stored(tts_cache', key) = Stored(tts_cache, key)]_vars

\* A request was answered by the provider and the next request, an identical
\* one, was answered from the cache.
C26_Witness ==
    /\ last.call = "get_from_cache"
    /\ last.ok
    /\ last.resp[1].status = 200
    /\ Len(acc) = 2
    /\ acc[1] = acc[2]
    /\ ops = 2

(***************************************************************************)
(* Properties of the join response.                                        *)
(***************************************************************************)
\* The fields of a join response that carry the code, the text, the settings,
\* the tasks, the anonymous identity and the simplification switch.
OtherJoinFields ==
    {"code", "text", "settings", "tasks_available", "tasks", "anonymous_id",
     "animal_emoji", "animal_name", "simplification_enabled"}

\* C27: the join_success sent to a participant who has a translation request
\* in the session has a field for the translation status, besides those for
\* the code, text, settings, tasks, identity and simplification.
C27_JoinCarriesTranslation ==
    \A e \in EmissionsOf(last, "join_success") :
        (/\ last.code \in DOMAIN sessions
         /\ e.to \in DOMAIN sessions[last.code].translation_requests)
        => (DOMAIN e.data) \ OtherJoinFields # {}

(***************************************************************************)
(* Properties of the sweep.                                                *)
(***************************************************************************)
\* The expiry times a record can have.
ExpiryTimes == 0 .. (MaxTime + SESSION_TIMEOUT_HOURS)

\* The registry holds under code c a record that expires at e.
Holds(c, e) == c \in DOMAIN sessions /\ sessions[c].expires = e

\* C28: with the sweep thread scheduled fairly, a record whose expiry has
\* passed is eventually out of the registry, whether or not a request names
\* its code.
C28_ExpiredIsSwept ==
    \A c \in Codes : \A e \in ExpiryTimes :
        (Holds(c, e) /\ now >= e) ~> ~Holds(c, e)

\* The sweep has just removed an expired record and none is left.
C28_Witness ==
    /\ last.call = "cleanup_expired_sessions"
    /\ last.ok
    /\ now >= SESSION_TIMEOUT_HOURS
    /\ \A c \in DOMAIN sessions : now < sessions[c].expires

(***************************************************************************)
(* Properties of a session's lifetime.                                     *)
(***************************************************************************)
\* The handlers that address an existing session.
SessionOperations ==
    { "api_join_session", "api_set_session_text",
      "teacher_update_settings", "teacher_release_tasks",
      "student_request_translation", "teacher_approve_translation",
      "teacher_deny_translation", "student_join_session", "disconnect",
      "student_using_simplified" }

\* C29: every record in the registry expires SESSION_TIMEOUT_HOURS after its
\* creation, and a step that keeps a record (the same code, created at the
\* same time) keeps its expires: no operation on a session moves its expiry.
C29_ExpiryIsFixed ==
    [][ \A c \in DOMAIN sessions' :
          /\ sessions'[c].expires = sessions'[c].created + SESSION_TIMEOUT_HOURS
          /\ (c \in DOMAIN sessions /\ sessions[c].created = sessions'[c].created)
                => sessions'[c].expires = sessions[c].expires ]_sessions

\* An operation has just written to a session created earlier, and the
\* session still expires SESSION_TIMEOUT_HOURS after its creation.
C29_Witness ==
    /\ last.h \in SessionOperations
    /\ last.code \in DOMAIN sessions
    /\ sessions[last.code].created < now
    /\ sessions[last.code].text # ""
    /\ sessions[last.code].students # EmptyDict
    /\ sessions[last.code].student_levels # EmptyDict
    /\ sessions[last.code].expires = sessions[last.code].created + SESSION_TIMEOUT_HOURS

(***************************************************************************)
(* Properties of the locking.                                              *)
(***************************************************************************)
\* Worker t has inserted its student and has yet to read the count it
\* reports to the owner.
AwaitsCount(t) == th[t].pc = "join_reply" /\ th[t].code \in DOMAIN sessions

\* C30: the participant count a join reports is read under the lock that
\* covered the join's insertion: between the insertion and the read no step
\* writes to the session's participants or removes the session.
C30_JoinCountUnderLock ==
    [][ \A t \in Threads :
          (AwaitsCount(t) /\ th'[t].pc = "join_reply")
              => /\ th[t].code \in DOMAIN sessions'
                 /\ sessions'[th[t].code].students = sessions[th[t].code].students
      ]_sessions

(***************************************************************************)
(* Properties of the locks.                                                *)
(***************************************************************************)
\* Thread t is about to call a provider.
AtCall(t) == Running(t) /\ th[t].x.todo # <<>> /\ NextOp(t)[1] = "call"

\* C31: a thread that is about to call an external provider holds none of
\* sessions_lock, cache_lock and translation_cache_lock.
C31_NoCallUnderLock ==
    \A t \in Threads : AtCall(t) => HeldBy(t) = {}

\* One thread is at the provider call of proxy_tts, between its cache lookup
\* and its insertion, while the other holds cache_lock.
C31_Witness ==
    \E t, u \in Threads :
        /\ AtCall(t) /\ th[t].h = "proxy_tts"
        /\ "cache_lock" \in HeldBy(u)

\* A thread stands at an acquire, a release, a call or its end.
CanStep(t) ==
    \/ th[t].x.held = {}
    \/ th[t].x.todo # <<>> /\ NextOp(t)[1] \in {"release", "call"}
    \/ th[t].x.todo # <<>> /\ NextOp(t)[1] = "acquire" /\ Free(NextOp(t)[2])

\* C32: no thread holds two of the three locks at once, no thread acquires a
\* lock it holds, and while any thread is inside a handler some such thread
\* can take its next step.
C32_NoNestingNoDeadlock ==
    /\ \A t \in Threads : Cardinality(HeldBy(t)) <= 1
    /\ \A t \in Threads :
          (Running(t) /\ th[t].x.todo # <<>> /\ NextOp(t)[1] = "acquire")
              => NextOp(t)[2] \notin HeldBy(t)
    /\ (\E t \in Threads : Running(t)) => \E t \in Threads : Running(t) /\ CanStep(t)

\* cache_stats waits for sessions_lock, which the sweep holds.
C32_Witness ==
    \E t, u \in Threads :
        /\ th[t].h = "cache_stats" /\ Running(t) /\ th[t].x.todo # <<>>
        /\ NextOp(t) = AcquireOp("sessions_lock")
        /\ th[u].h = "session_cleanup_thread" /\ "sessions_lock" \in HeldBy(u)

(***************************************************************************)
(* Properties of failed provider calls.                                    *)
(***************************************************************************)
\* The places where a handler waits for its provider.
CallPcs == {"tts_call", "translate_call", "approve_translate"}

\* The step taken is thread t's provider call, and the call did not succeed.
FailedCall(t) ==
    /\ th[t].pc \in CallPcs
    /\ th'[t].pc # th[t].pc
    /\ ~last'.ok

\* C33: when the provider call of proxy_tts, proxy_translate or
\* teacher_approve_translation fails or times out, the caller gets an error
\* (an HTTP error body, or session_error on the socket), the handler is over,
\* and the caches and the registry, the translation request with them, are
\* what they were; a provider step changes a cache only when it succeeded.
C33_FailureWritesNothing ==
    [][\A t \in Threads :
          /\ FailedCall(t)
             => /\ th'[t].pc = "idle"
                /\ last'.done
                /\ tts_cache' = tts_cache
                /\ translation_cache' = translation_cache
                /\ sessions' = sessions
                /\ IF th[t].pc = "approve_translate"
                   THEN /\ Len(last'.emits) = 1
                        /\ last'.emits[1].ev = "session_error"
                        /\ last'.emits[1].to = th[t].sid
                   ELSE /\ last'.resp[1].status >= 400
                        /\ "error" \in DOMAIN last'.resp[1].body
          /\ (th[t].pc \in CallPcs /\ th'[t].pc # th[t].pc
                 /\ (tts_cache' # tts_cache \/ translation_cache' # translation_cache))
             => /\ last'.ok
                /\ last'.resp[1].status = 200
      ]_<<sessions, tts_cache, translation_cache, last>>

\* The provider has just failed an approval; the request is still pending and
\* has no translation, and nothing is cached.
C33_Witness ==
    /\ last.h = "teacher_approve_translation"
    /\ last.done /\ ~last.ok
    /\ Len(last.emits) = 1
    /\ last.emits[1].ev = "session_error"
    /\ last.emits[1].data.error[1] = "Uebersetzungsfehler"
    /\ last.code \in DOMAIN sessions
    /\ \E s \in DOMAIN sessions[last.code].translation_requests :
          /\ sessions[last.code].translation_requests[s].status = "pending"
          /\ sessions[last.code].translation_requests[s].translated_text = <<>>
    /\ tts_cache = <<>> /\ translation_cache = <<>>
    /\ ops >= 4

(***************************************************************************)
(* Properties of a sweep that failed.                                      *)
(***************************************************************************)
\* A run of the sweep has raised.
SweepHasRaised == th[SweepThread].pc = "dead"

\* C34: after a run of the sweep has raised, the sweep still runs: a record
\* whose expiry has passed is eventually out of the registry.
C34_SweepSurvivesError ==
    \A c \in Codes : \A e \in ExpiryTimes :
        (SweepHasRaised /\ Holds(c, e) /\ now >= e) ~> ~Holds(c, e)

(***************************************************************************)
(* Properties of sessions side by side.                                    *)
(***************************************************************************)
\* The handlers whose request carries a session code.
CodeOperations ==
    { "api_set_session_text", "teacher_update_settings", "teacher_release_tasks",
      "student_request_translation", "teacher_deny_translation",
      "student_join_session", "teacher_end_session" }

\* C35: a step of an operation that carries code A leaves every other code's
\* record as it was (present or absent, with every field) and emits nothing
\* to another code's room.
C35_OtherSessionUntouched ==
    [][ (last'.h \in CodeOperations /\ last'.code \in Codes)
        => \A B \in Codes \ {last'.code} :
              /\ (B \in DOMAIN sessions) = (B \in DOMAIN sessions')
              /\ B \in DOMAIN sessions
                    => /\ sessions'[B] = sessions[B]
                       /\ \A i \in DOMAIN last'.emits : last'.emits[i].to # B
      ]_<<sessions, last>>

\* The same, for operations other than the denial of a translation request.
OtherSessionUntouchedButDeny ==
    [][ (last'.h \in CodeOperations \ {"teacher_deny_translation"} /\ last'.code \in Codes)
        => \A B \in Codes \ {last'.code} :
              /\ (B \in DOMAIN sessions) = (B \in DOMAIN sessions')
              /\ B \in DOMAIN sessions
                    => /\ sessions'[B] = sessions[B]
                       /\ \A i \in DOMAIN last'.emits : last'.emits[i].to # B
      ]_<<sessions, last>>

(***************************************************************************)
(* Properties of the cache keys.                                           *)
(***************************************************************************)
\* C36: requests that differ in a field get different keys, so an answer from
\* the cache is the result for the request's own text and parameters: the
\* synthesis of its text in its language, the translation of its text into
\* its target language.
C36_HitIsForSameRequest ==
    [][\A t \in Threads :
          /\ (th[t].pc = "tts_lookup" /\ th'[t].pc = "idle")
             => last'.resp[1].body.audio
                    = Audio(th[t].x.text, th[t].x.language_code, th[t].x.voice_id)
          /\ (th[t].pc = "translate_lookup" /\ th'[t].pc = "idle")
             => last'.resp[1].body.translated_text
                    = Translation(th[t].x.text, th[t].x.target_language)
      ]_<<tts_cache, translation_cache, last>>

(***************************************************************************)
(* Properties of owner-only writes.                                        *)
(***************************************************************************)
\* Where an owner-only handler stands before its locked write.
OwnerWritePcs == {"settings_write", "tasks_write", "simplification_write"}

\* C37: the write of an owner-only handler changes a record only if it is the
\* caller's: a session that took over the code after the ownership check, and
\* belongs to another teacher, keeps every field.
C37_WriteHitsCheckedRecord ==
    [][\A t \in Threads :
          (/\ th[t].pc \in OwnerWritePcs
           /\ th'[t].pc # th[t].pc
           /\ th[t].code \in DOMAIN sessions
           /\ sessions[th[t].code].teacher_sid # th[t].sid)
          => sessions' = sessions
      ]_sessions

(***************************************************************************)
(* Properties of a join that races with the end of its session.            *)
(***************************************************************************)
\* The step taken is the reply of worker t's join.
JoinReplies(t) == th[t].pc = "join_reply" /\ th'[t].pc = "idle"

\* C38: a join whose insertion found no session (add_student_to_session
\* returned None) answers join_error and leaves the rooms alone; join_success
\* and the room go to students who were inserted.
C38_JoinNeedsInsertion ==
    [][\A t \in Threads :
          (JoinReplies(t) /\ th[t].x.student_data = {})
          => /\ EmissionsOf(last', "join_success") = {}
             /\ EmissionsOf(last', "join_error") # {}
             /\ rooms' = rooms
      ]_<<rooms, last>>

(***************************************************************************)
(* Properties of the text a joining student sees.                          *)
(***************************************************************************)
\* C39: when a join has delivered its join_success and every handler has
\* finished, the text of that snapshot, the last text delivered to the
\* student, is the text the session stores: no text_updated went to the
\* student's room between the reading of the snapshot and its delivery.
C39_SnapshotIsCurrent ==
    (/\ last.h = "student_join_session"
     /\ last.done
     /\ \A t \in Threads : th[t].pc = "idle"
     /\ last.code \in DOMAIN sessions)
    => \A e \in EmissionsOf(last, "join_success") :
          e.data.text = sessions[last.code].text

(***************************************************************************)
(* Properties of approved translations.                                    *)
(***************************************************************************)
\* The language a provider result was translated into.
LanguageOf(translated_text) == translated_text[2]

\* C40: a translation request with status approved holds a translation into
\* the language the same record names.
C40_ApprovedMatchesLanguage ==
    \A c \in DOMAIN sessions :
        \A s \in DOMAIN sessions[c].translation_requests :
            LET request == sessions[c].translation_requests[s] IN
            request.status = "approved"
                => LanguageOf(request.translated_text) = request.language

====
